---- MODULE Spec2Model ----
(***************************************************************************)
(* A model of the Trump Speech Archive pipeline (src/archive_pipeline.py): *)
(* VideoProcessor.process_transcript, the diarization/transcription        *)
(* aligner, checked on bounded inputs under SpecAlign, and                 *)
(* VideoProcessor.run_pipeline / process_channel / evaluate_commentary /   *)
(* save_processed_data, the per-video pipeline, checked under Spec.        *)
(*                                                                         *)
(* Parts of it are also checked on their own, on bounded inputs:           *)
(* filter_trump_videos (SpecFilter), the sampling and aggregation of       *)
(* evaluate_commentary (SpecEval), get_channel_videos (SpecList), its      *)
(* paging loop (SpecPage, SpecPageLive) and save_processed_data            *)
(* (SpecStore); and the reader of the metadata, src/api.py.                *)
(*                                                                         *)
(* Texts are sequences of one-character strings, so that str.strip() and   *)
(* concatenation are computed, not assumed.  Times are integers (seconds). *)
(***************************************************************************)
EXTENDS Integers, Sequences, FiniteSets, TLC

VARIABLES
    \* the aligner on its own (SpecAlign)
    apc,            \* "idle", "input", "returned" or "raised"
    diarization,    \* the turns diarization.itertracks yields
    transcription,  \* what whisper_model.transcribe returned
    result,         \* what process_transcript returned
    \* the pipeline (Spec): VideoProcessor and the locals of process_channel
    pc,             \* where run_pipeline stands
    sources,        \* self.sources
    chan,           \* index of channel_info in self.sources
    videos,         \* videos of the current channel
    trump_videos,   \* the filtered videos of the current channel
    vidx,           \* index of video in trump_videos
    commentary_eval,\* the decision of the current video
    transcript,     \* the transcript of the current video
    metadata,       \* the metadata record of the current video
    audio_files,    \* video ids with a file in AUDIO_DIR
    metadata_store, \* METADATA_DIR: video id -> record
    transcript_store,\* TRANSCRIPT_DIR: video id -> record
    issued,         \* number of uuids issued
    clock,          \* number of datetime.now() calls
    raised_in,      \* the call whose exception left run_pipeline
    \* history, per video key << channel index, playlist position >>
    vstate,         \* the state the video reached
    decisions,      \* level and review flag evaluate_commentary returned
    eval_inputs,    \* what the services answered to the evaluation at the gate
    invoked,        \* keys process_transcript was invoked for
    writes,         \* << key, "metadata" | "transcript" >> written
    \* filter_trump_videos on its own (SpecFilter)
    fpc,            \* "idle", "input" or "returned"
    f_videos,       \* the argument videos
    f_selectivity,  \* the argument selectivity
    f_trump_videos, \* the list returned
    \* the sampling and evaluation loop of evaluate_commentary (SpecEval)
    epc,            \* "idle", "sample", "evaluate", "aggregate" or "returned"
    e_length,       \* len(transcript_text)
    e_segments,     \* segments: the samples, as slices of transcript_text
    e_idx,          \* index in segments of the sample evaluated next
    e_answers,      \* what commentary_chain.run answered, call by call
    e_evaluations,  \* evaluations
    e_decision,     \* what evaluate_commentary returned
    \* the paging loop of get_channel_videos (SpecPage)
    gpc,            \* "idle", "loop" or "returned"
    g_uploads,      \* the uploads playlist the provider holds
    g_max_results,  \* the argument max_results
    g_videos,       \* videos
    g_token,        \* next_page_token: None, or the items before the page
    g_requests,     \* maxResults and len(videos) of each request made
    g_empties,      \* the empty pages the provider still has before the next
                    \* item
    \* get_channel_videos, provider call by provider call (SpecList)
    lpc,            \* "idle", "resolve", "channel", "uploads", "returned"
                    \* or "raised"
    l_url,          \* the argument channel_url
    l_max_results,  \* the argument max_results
    l_channel_id,   \* channel_id
    l_lookup,       \* the lookup made to resolve the reference, or None
    l_failure,      \* how a provider call failed: "none", "http_error" or
                    \* "error"
    l_result,       \* the list returned
    \* save_processed_data, write by write (SpecStore)
    spc,            \* "idle", "ready", "saving" or "crashed"
    s_call,         \* the arguments of the call in progress, or None
    s_written,      \* the number of files the call in progress has written
    s_metadata_dir, \* METADATA_DIR: video id -> record
    s_transcript_dir,\* TRANSCRIPT_DIR: video id -> record
    s_saved,        \* video id -> the arguments of its most recent call,
                    \* whether it returned, and the fields of all its calls
    s_calls         \* the number of calls made

align_vars == << apc, diarization, transcription, result >>
run_vars == << pc, sources, chan, videos, trump_videos, vidx, commentary_eval, transcript, metadata, audio_files, metadata_store, transcript_store, issued, clock, raised_in >>
hist_vars == << vstate, decisions, eval_inputs, invoked, writes >>
filter_vars == << fpc, f_videos, f_selectivity, f_trump_videos >>
eval_vars == << epc, e_length, e_segments, e_idx, e_answers, e_evaluations, e_decision >>
page_vars == << gpc, g_uploads, g_max_results, g_videos, g_token, g_requests, g_empties >>
list_vars == << lpc, l_url, l_max_results, l_channel_id, l_lookup, l_failure, l_result >>
store_vars == << spc, s_call, s_written, s_metadata_dir, s_transcript_dir, s_saved, s_calls >>
unit_vars == << filter_vars, eval_vars, page_vars, list_vars, store_vars >>
vars == << align_vars, run_vars, hist_vars, unit_vars >>

\* Python's None (a record, so that it compares with the records it stands
\* in for).
None == [none |-> TRUE]

----------------------------------------------------------------------------
(* Bounds of the aligner inputs.                                           *)

\* Times of turns and segments range over 0..MaxTime.
MaxTime == 3
\* A diarization has at most MaxTurns turns.
MaxTurns == 2
\* A transcription has at most MaxSegs segments.
MaxSegs == 3

----------------------------------------------------------------------------
(* Strings.                                                                *)

\* The characters str.strip() removes (the ones the model's texts can hold).
Whitespace == {" ", "\t", "\n"}

RECURSIVE lstrip(_)
lstrip(s) ==
    IF s # <<>> /\ Head(s) \in Whitespace THEN lstrip(Tail(s)) ELSE s

RECURSIVE rstrip(_)
rstrip(s) ==
    IF s # <<>> /\ s[Len(s)] \in Whitespace
    THEN rstrip(SubSeq(s, 1, Len(s) - 1))
    ELSE s

\* str.strip(): leading and trailing whitespace removed.
strip(s) == rstrip(lstrip(s))

\* `needle in hay` for strings.
contains(needle, hay) ==
    \E i \in 0..(Len(hay) - Len(needle)) :
        SubSeq(hay, i + 1, i + Len(needle)) = needle

\* `s.split(sep)[-1]`: what follows the last occurrence of the character
\* sep, the whole of s when there is none.
RECURSIVE split_last(_, _)
split_last(s, sep) ==
    IF s = <<>> \/ s[Len(s)] = sep THEN <<>>
    ELSE Append(split_last(SubSeq(s, 1, Len(s) - 1), sep), s[Len(s)])

\* The texts a transcription segment may carry: empty, whitespace only,
\* a word, and a word with the leading space whisper puts before it.
SegTexts == { <<>>, <<" ">>, <<"a">>, <<" ", "b">> }

----------------------------------------------------------------------------
(* Python numbers.  A float is an IEEE 754 binary64: zero, or               *)
(* (1 + f / 2^52) * 2^e with the 52 fraction bits f held as four limbs of  *)
(* 13 bits, most significant first.  Only zero and the positive normal     *)
(* numbers are needed.  An int of the sizes met here (far below 2^53) is   *)
(* held as the float of the same value, on which +, / and < give the value *)
(* Python gives on the int.  Exact intermediate results are naturals held  *)
(* as sequences of limbs, most significant first.                          *)

\* The significand of a binary64 has 53 bits.
MantissaBits == 53
\* The bits of a limb.
LimbBits == 13

Pow2Table ==
    << 1, 2, 4, 8, 16, 32, 64, 128, 256, 512, 1024, 2048, 4096, 8192 >>
Pow2(k) == Pow2Table[k + 1]
Base == Pow2(LimbBits)

Zeros(n) == [i \in 1..n |-> 0]

\* The number 0.0.
Zero == [e |-> 0, f |-> <<>>]
IsZero(x) == x.f = <<>>

\* The significand 2^52 + f of a positive float, as a natural.
Significand(x) == <<1>> \o x.f

RECURSIVE StripZeros(_)
StripZeros(limbs) ==
    IF limbs # <<>> /\ Head(limbs) = 0 THEN StripZeros(Tail(limbs)) ELSE limbs

\* The number of bits of a limb v > 0, and of a natural without leading zeros.
LimbLength(v) == CHOOSE k \in 1..LimbBits : Pow2(k - 1) <= v /\ v < Pow2(k)
BitLength(limbs) == LimbBits * (Len(limbs) - 1) + LimbLength(limbs[1])

\* a + b + c for naturals a, b of one length and a carry c.
RECURSIVE AddCarry(_, _, _)
AddCarry(a, b, c) ==
    IF a = <<>> THEN (IF c = 1 THEN <<1>> ELSE <<>>)
    ELSE LET n == Len(a)
             t == a[n] + b[n] + c
         IN  AddCarry(SubSeq(a, 1, n - 1), SubSeq(b, 1, n - 1), t \div Base)
                \o << t % Base >>

\* limbs * 2^k.
ShiftLeft(limbs, k) ==
    LET r == k % LimbBits
        x == <<0>> \o limbs \o <<0>>
    IN  [i \in 1..(Len(limbs) + 1) |->
            ((x[i] * Pow2(r)) % Base) + ((x[i + 1] * Pow2(r)) \div Base)]
        \o Zeros(k \div LimbBits)

\* limbs \div 2^k, and whether a bit was lost.
ShiftRight(limbs, k) ==
    LET r == k % LimbBits
        n == Len(limbs) - k \div LimbBits
        x == <<0>> \o limbs
    IN  [q |-> [i \in 1..n |->
                   ((x[i] % Pow2(r)) * Pow2(LimbBits - r))
                        + (x[i + 1] \div Pow2(r))],
         lost |-> \/ limbs[n] % Pow2(r) # 0
                  \/ \E i \in (n + 1)..Len(limbs) : limbs[i] # 0]

\* The float of significand q (53 bits) and exponent e.
Pack(q, e) ==
    LET s == StripZeros(q)
    IN  IF s[1] > 1 THEN [e |-> e + 1, f |-> Zeros(Len(s) - 1)]
        ELSE [e |-> e, f |-> Tail(s)]

\* Round to nearest, ties to even: the float nearest to the natural limbs
\* (not zero) times 2^lsb, plus a non-zero rest below it when sticky.
Round(limbs, lsb, sticky) ==
    LET s == StripZeros(limbs)
        n == BitLength(s)
        t == ShiftRight(s, n - MantissaBits - 1)
        guard == t.q[Len(t.q)] % 2 = 1
        h == ShiftRight(t.q, 1)
        odd == h.q[Len(h.q)] % 2 = 1
        up == guard /\ (sticky \/ t.lost \/ odd)
    IN  IF n <= MantissaBits
        THEN Pack(ShiftLeft(s, MantissaBits - n), lsb + n - 1)
        ELSE IF up
        THEN Pack(AddCarry(h.q, Zeros(Len(h.q)), 1), lsb + n - 1)
        ELSE Pack(h.q, lsb + n - 1)

\* float.__add__ on non-negative numbers.
fadd(a, b) ==
    IF IsZero(a) THEN b
    ELSE IF IsZero(b) THEN a
    ELSE LET hi == IF a.e >= b.e THEN a ELSE b
             lo == IF a.e >= b.e THEN b ELSE a
             d == hi.e - lo.e
             x == ShiftLeft(Significand(hi), d)
             y == Zeros(Len(x) - Len(Significand(lo))) \o Significand(lo)
         IN  IF d > MantissaBits THEN hi
             ELSE Round(AddCarry(x, y, 0), lo.e - (MantissaBits - 1), FALSE)

\* Long division of a natural by n < Base, from the most significant limb.
RECURSIVE LongDiv(_, _, _, _)
LongDiv(limbs, n, rem, q) ==
    IF limbs = <<>> THEN [q |-> q, r |-> rem]
    ELSE LET cur == rem * Base + Head(limbs)
         IN  LongDiv(Tail(limbs), n, cur % n, q \o << cur \div n >>)

\* float.__truediv__ by a positive int n < Base (one more limb is enough
\* to round).
fdiv(a, n) ==
    IF IsZero(a) THEN a
    ELSE LET d == LongDiv(Significand(a) \o <<0>>, n, 0, <<>>)
         IN  Round(d.q, a.e - (MantissaBits - 1) - LimbBits, d.r # 0)

\* float.__lt__ on non-negative numbers.
fless(a, b) ==
    IF IsZero(b) THEN FALSE
    ELSE IF IsZero(a) THEN TRUE
    ELSE \/ a.e < b.e
         \/ /\ a.e = b.e
            /\ \E i \in 1..Len(a.f) :
                  /\ a.f[i] < b.f[i]
                  /\ \A j \in 1..(i - 1) : a.f[j] = b.f[j]

\* The limbs of an int k >= 0.
RECURSIVE ToLimbs(_)
ToLimbs(k) == IF k = 0 THEN <<>> ELSE ToLimbs(k \div Base) \o << k % Base >>

\* float(k) for an int k >= 0.
FromInt(k) == IF k = 0 THEN Zero ELSE Round(ToLimbs(k), 0, FALSE)

\* The four bits of a hexadecimal digit, and the bits of a string of them.
Nibble(h) == << (h \div 8) % 2, (h \div 4) % 2, (h \div 2) % 2, h % 2 >>
Nibbles(hs) == [i \in 1..(4 * Len(hs)) |-> Nibble(hs[(i + 3) \div 4])[((i - 1) % 4) + 1]]

\* The int a string of bits denotes.
RECURSIVE BitsToInt(_)
BitsToInt(bits) ==
    IF bits = <<>> THEN 0
    ELSE 2 * BitsToInt(SubSeq(bits, 1, Len(bits) - 1)) + bits[Len(bits)]

\* float.fromhex("0x1.<13 hexadecimal digits>p<e>").
FromHex(digits, e) ==
    LET bits == Nibbles(digits)
    IN  [e |-> e,
         f |-> [j \in 1..(Len(bits) \div LimbBits) |->
                  BitsToInt(SubSeq(bits, LimbBits * (j - 1) + 1, LimbBits * j))]]

\* Float literals of the program and of its inputs, as float.hex() prints
\* them.
F0_1 == FromHex(<<9, 9, 9, 9, 9, 9, 9, 9, 9, 9, 9, 9, 10>>, -4)
F0_2 == FromHex(<<9, 9, 9, 9, 9, 9, 9, 9, 9, 9, 9, 9, 10>>, -3)
F0_3 == FromHex(<<3, 3, 3, 3, 3, 3, 3, 3, 3, 3, 3, 3, 3>>, -2)
F0_4 == FromHex(<<9, 9, 9, 9, 9, 9, 9, 9, 9, 9, 9, 9, 10>>, -2)
F0_5 == FromHex(<<0, 0, 0, 0, 0, 0, 0, 0, 0, 0, 0, 0, 0>>, -1)
F0_6 == FromHex(<<3, 3, 3, 3, 3, 3, 3, 3, 3, 3, 3, 3, 3>>, -1)
F0_8 == FromHex(<<9, 9, 9, 9, 9, 9, 9, 9, 9, 9, 9, 9, 10>>, -1)
F1_2 == FromHex(<<3, 3, 3, 3, 3, 3, 3, 3, 3, 3, 3, 3, 3>>, 0)
F1_8 == FromHex(<<12, 12, 12, 12, 12, 12, 12, 12, 12, 12, 12, 12, 13>>, 0)

----------------------------------------------------------------------------
(* The inputs of the aligner: what the two speech services return.         *)

Times == 0..MaxTime

\* pyannote's labels.
Speakers == {"SPEAKER_00", "SPEAKER_01"}

\* One diarization turn, as diarization.itertracks(yield_label=True) yields
\* it: a non-empty time interval and a speaker label.
Turns ==
    { t \in [start : Times, end : Times, speaker : Speakers] : t.start < t.end }

\* Turns come ordered by start time; turns of one label do not overlap.
IsDiarization(d) ==
    /\ \A i \in 1..(Len(d) - 1) : d[i].start <= d[i + 1].start
    /\ \A i, j \in 1..Len(d) :
         (i < j /\ d[i].speaker = d[j].speaker) => d[i].end <= d[j].start

Diarizations ==
    UNION { { d \in [1..n -> Turns] : IsDiarization(d) } : n \in 0..MaxTurns }

\* One whisper segment.
Segs ==
    { s \in [start : Times, end : Times, text : SegTexts] : s.start < s.end }

\* Segments come in time order and do not overlap.
IsSegmentList(ss) ==
    \A i \in 1..(Len(ss) - 1) : ss[i].end <= ss[i + 1].start

SegmentLists ==
    UNION { { ss \in [1..n -> Segs] : IsSegmentList(ss) } : n \in 0..MaxSegs }

\* The concatenation of the segments' texts.
RECURSIVE ConcatTexts(_)
ConcatTexts(ss) ==
    IF ss = <<>> THEN <<>> ELSE Head(ss).text \o ConcatTexts(Tail(ss))

\* whisper_model.transcribe(audio_file): the segments and the full text,
\* which whisper decodes from the same tokens as the segments.
Transcribe(ss) == [text |-> ConcatTexts(ss), segments |-> ss]

Transcriptions == { Transcribe(ss) : ss \in SegmentLists }

----------------------------------------------------------------------------
(* VideoProcessor.process_transcript.                                      *)

\* A variant of the overlap test with exclusive boundaries.
overlaps_strict(seg_start, seg_end, start_time, end_time) ==
    seg_start < end_time /\ seg_end > start_time

\* The overlap test of a transcription segment against a turn.
overlaps(seg_start, seg_end, start_time, end_time) ==
    seg_start <= end_time /\ seg_end >= start_time

\* The inner loop: segment_text, accumulated over transcription["segments"].
RECURSIVE segment_text(_, _, _)
segment_text(segments, start_time, end_time) ==
    IF segments = <<>> THEN <<>>
    ELSE (IF overlaps(Head(segments).start, Head(segments).end,
                      start_time, end_time)
          THEN Head(segments).text \o <<" ">>
          ELSE <<>>)
         \o segment_text(Tail(segments), start_time, end_time)

\* `if segment_text:` -- the test that decides whether a turn is emitted.
emits(text) == text # <<>>

\* A variant of turn_segment with the two times exchanged.
turn_segment_swapped(turn, text) ==
    [start |-> turn.end, end |-> turn.start,
     speaker |-> turn.speaker, text |-> strip(text)]

\* The segment appended for one turn (its id is given by with_ids).
turn_segment(turn, text) ==
    [start |-> turn.start, end |-> turn.end,
     speaker |-> turn.speaker, text |-> strip(text)]

\* The outer loop over diarization.itertracks.
RECURSIVE turn_segments(_, _)
turn_segments(diar, trans) ==
    IF diar = <<>> THEN <<>>
    ELSE LET turn == Head(diar)
             text == segment_text(trans.segments, turn.start, turn.end)
         IN  (IF emits(text) THEN << turn_segment(turn, text) >> ELSE <<>>)
             \o turn_segments(Tail(diar), trans)

\* The default speaker of the fallback segment.
DefaultSpeaker == "SPEAKER_0"

\* A variant of the fallback that ends with the first segment, not the last.
fallback_segment_first(trans) ==
    [start |-> 0,
     end |-> IF trans.segments # <<>> THEN trans.segments[1].end ELSE 0,
     speaker |-> DefaultSpeaker,
     text |-> trans.text]

\* The segment synthesized when no turn gave one.
fallback_segment(trans) ==
    [start |-> 0,
     end |-> IF trans.segments # <<>>
             THEN trans.segments[Len(trans.segments)].end
             ELSE 0,
     speaker |-> DefaultSpeaker,
     text |-> trans.text]

\* A variant that appends the fallback whatever the turns gave.
aligned_segments_always(diar, trans) ==
    turn_segments(diar, trans) \o << fallback_segment(trans) >>

\* `if not segments: segments.append(...)`.
aligned_segments(diar, trans) ==
    LET segments == turn_segments(diar, trans)
    IN  IF segments = <<>> THEN << fallback_segment(trans) >>
        ELSE segments

\* str(uuid.uuid4()) for each appended segment: ids issued so far are
\* 1..n_issued, the next ones are fresh.
with_ids(segments, n_issued) ==
    [i \in 1..Len(segments) |-> [id |-> n_issued + i] @@ segments[i]]

\* process_transcript(video_id): None without the audio file, else the
\* transcript record.
process_transcript(video_id, audio_exists, diar, trans, n_issued, now) ==
    IF ~audio_exists THEN None
    ELSE [video_id |-> video_id,
          segments |-> with_ids(aligned_segments(diar, trans), n_issued),
          processed_at |-> now]

----------------------------------------------------------------------------
(* Configuration and the channel/video provider.                           *)

\* run_pipeline(max_videos_per_channel): the argument of the run.
MaxVideosPerChannel == 2

\* Channel ids and a legacy username.
UC1 ==
    <<"U", "C", "1">>
UC2 ==
    <<"U", "C", "2">>
foxnews ==
    <<"f", "o", "x", "n", "e", "w", "s">>

\* Channel URLs.
UrlChannel1 ==
    <<"h", "t", "t", "p", "s", ":", "/", "/", "y", "o", "u", "t", "u", "b",
      "e", ".", "c", "o", "m", "/", "c", "h", "a", "n", "n", "e", "l", "/",
      "U", "C", "1">>
UrlUserFox ==
    <<"h", "t", "t", "p", "s", ":", "/", "/", "y", "o", "u", "t", "u", "b",
      "e", ".", "c", "o", "m", "/", "u", "s", "e", "r", "/", "f", "o", "x",
      "n", "e", "w", "s">>

\* sources.json.
Config ==
    << [url |-> UrlChannel1, channel_name |-> "Channel One",
        selectivity |-> F0_5, commentary_level |-> "none"],
       [url |-> UrlUserFox, channel_name |-> "Fox News",
        selectivity |-> F0_8, commentary_level |-> "mixed"] >>

\* self.commentary_map.
commentary_map ==
    [l \in {"none", "minimal_intro/outro", "substantial"} |->
        CASE l = "none" -> 0
          [] l = "minimal_intro/outro" -> 1
          [] l = "substantial" -> 2]

\* A variant of the normalisation that puts the numeric level in place of
\* the supplied one.
init_sources_overwrite(config) ==
    [i \in 1..Len(config) |->
        [commentary_level |->
            IF config[i].commentary_level \in DOMAIN commentary_map
            THEN commentary_map[config[i].commentary_level]
            ELSE 1]
        @@ config[i]]

\* VideoProcessor.__init__: every source gets commentary_level_numeric.
init_sources(config) ==
    [i \in 1..Len(config) |->
        [commentary_level_numeric |->
            IF config[i].commentary_level \in DOMAIN commentary_map
            THEN commentary_map[config[i].commentary_level]
            ELSE 1]
        @@ config[i]]

TitleRally ==
    <<"T", "r", "u", "m", "p", " ", "s", "p", "e", "a", "k", "s", " ", "a",
      "t", " ", "r", "a", "l", "l", "y">>
DescRally ==
    <<"F", "o", "r", "m", "e", "r", " ", "P", "r", "e", "s", "i", "d", "e",
      "n", "t", " ", "T", "r", "u", "m", "p", " ", "h", "o", "l", "d", "s",
      " ", "a", " ", "c", "a", "m", "p", "a", "i", "g", "n", " ", "r", "a",
      "l", "l", "y">>
TitleNews ==
    <<"N", "e", "w", "s", " ", "o", "f", " ", "t", "h", "e", " ", "d", "a",
      "y">>
DescNews ==
    <<"V", "a", "r", "i", "o", "u", "s", " ", "n", "e", "w", "s", " ", "s",
      "t", "o", "r", "i", "e", "s">>
TitleInterview ==
    <<"P", "r", "e", "s", "i", "d", "e", "n", "t", " ", "T", "R", "U", "M",
      "P", " ", "i", "n", "t", "e", "r", "v", "i", "e", "w">>
DescInterview ==
    <<"F", "u", "l", "l", " ", "i", "n", "t", "e", "r", "v", "i", "e", "w">>
TitleReaction ==
    <<"P", "a", "n", "e", "l", " ", "r", "e", "a", "c", "t", "s">>
DescReaction ==
    <<"R", "e", "a", "c", "t", "i", "o", "n", " ", "t", "o", " ", "D", "o",
      "n", "a", "l", "d", " ", "T", "r", "u", "m", "p">>

\* A playlist item: snippet.position, snippet.resourceId.videoId,
\* snippet.title, snippet.description, snippet.publishedAt.
Item(position, videoId, title, description, publishedAt) ==
    [position |-> position, videoId |-> videoId, title |-> title,
     description |-> description, publishedAt |-> publishedAt]

\* The uploads playlists the provider holds, newest first, by channel id.
\* The rally video is in both channels.
Uploads ==
    [c \in {UC1, UC2} |->
        IF c = UC1
        THEN << Item(1, "v1", TitleRally, DescRally, 30),
                Item(2, "v2", TitleInterview, DescInterview, 20),
                Item(3, "v3", TitleNews, DescNews, 10) >>
        ELSE << Item(1, "v4", TitleReaction, DescReaction, 40),
                Item(2, "v1", TitleRally, DescRally, 30) >>]

\* channels().list(forUsername=...): the channel ids of the legacy usernames.
Usernames == [u \in {foxnews} |-> UC2]

\* How the provider answers one get_channel_videos call: it answers, it
\* fails with an HttpError, or it fails otherwise (a network error).
ProviderOutcomes == {"ok", "http_error", "error"}

----------------------------------------------------------------------------
(* VideoProcessor.get_channel_videos.                                      *)

\* The per-call cap of playlistItems().list.
PageCap == 50

Min(a, b) == IF a < b THEN a ELSE b

\* `"user" in channel_url`.
has_user(channel_url) == contains(<<"u", "s", "e", "r">>, channel_url)

\* A variant of the loop that tests its condition only after a request.
loop_guard_after(collected, max_results) == TRUE

\* `while len(videos) < max_results`.
loop_guard(collected, max_results) == collected < max_results

\* `if not next_page_token: break`.
exits(next_page_token) == next_page_token = None

\* A variant of the request that always asks for a full page.
page_size_full(max_results, collected) == PageCap

\* maxResults of one request: `min(50, max_results - len(videos))`.
page_size(max_results, collected) == Min(PageCap, max_results - collected)

\* The paging loop over the uploads playlist; the page token is the number
\* of items before the page.
RECURSIVE playlist_pages(_, _, _, _)
playlist_pages(uploads, max_results, collected, next_page_token) ==
    IF ~loop_guard(Len(collected), max_results) THEN collected
    ELSE LET maxResults == page_size(max_results, Len(collected))
             last == Min(next_page_token + maxResults, Len(uploads))
             items == SubSeq(uploads, next_page_token + 1, last)
             more == last < Len(uploads)
         IN  IF ~more THEN collected \o items
             ELSE playlist_pages(uploads, max_results, collected \o items, last)

\* get_channel_videos(channel_url, max_results): the videos returned, or the
\* exception that leaves the method (only HttpError is caught).
get_channel_videos(channel_url, max_results, outcome) ==
    LET last == split_last(channel_url, "/")
        found == ~has_user(channel_url) \/ last \in DOMAIN Usernames
        channel_id == IF has_user(channel_url) /\ found THEN Usernames[last]
                      ELSE last
    IN  IF outcome = "error" THEN [raised |-> TRUE, videos |-> <<>>]
        ELSE IF outcome = "http_error" \/ ~found
                \/ channel_id \notin DOMAIN Uploads
        THEN [raised |-> FALSE, videos |-> <<>>]
        ELSE [raised |-> FALSE,
              videos |-> playlist_pages(Uploads[channel_id], max_results,
                                        <<>>, 0)]

----------------------------------------------------------------------------
(* VideoProcessor.filter_trump_videos.                                     *)

UpperCase ==
    <<"A", "B", "C", "D", "E", "F", "G", "H", "I", "J", "K", "L", "M", "N",
      "O", "P", "Q", "R", "S", "T", "U", "V", "W", "X", "Y", "Z">>
LowerCase ==
    <<"a", "b", "c", "d", "e", "f", "g", "h", "i", "j", "k", "l", "m", "n",
      "o", "p", "q", "r", "s", "t", "u", "v", "w", "x", "y", "z">>

lower_char(c) ==
    IF \E i \in 1..Len(UpperCase) : UpperCase[i] = c
    THEN LowerCase[CHOOSE i \in 1..Len(UpperCase) : UpperCase[i] = c]
    ELSE c

\* str.lower().
lower(s) == [i \in 1..Len(s) |-> lower_char(s[i])]

kw_trump == <<"t", "r", "u", "m", "p">>
kw_donald_trump ==
    <<"d", "o", "n", "a", "l", "d", " ", "t", "r", "u", "m", "p">>
kw_president_trump ==
    <<"p", "r", "e", "s", "i", "d", "e", "n", "t", " ", "t", "r", "u", "m",
      "p">>
kw_former_president_trump ==
    <<"f", "o", "r", "m", "e", "r", " ", "p", "r", "e", "s", "i", "d", "e",
      "n", "t", " ", "t", "r", "u", "m", "p">>

trump_keywords ==
    << kw_trump, kw_donald_trump, kw_president_trump,
       kw_former_president_trump >>

\* The weights of a title match and of a description match.
TitleWeight == F0_6
DescriptionWeight == F0_4

\* A variant of the score that keeps the largest contribution of one
\* keyword in place of the sum.
RECURSIVE score_from_max(_, _, _, _)
score_from_max(k, title, description, acc) ==
    IF k > Len(trump_keywords) THEN acc
    ELSE LET after_title ==
                 IF contains(trump_keywords[k], title)
                 THEN fadd(Zero, TitleWeight) ELSE Zero
             after_description ==
                 IF contains(trump_keywords[k], description)
                 THEN fadd(after_title, DescriptionWeight) ELSE after_title
         IN  score_from_max(k + 1, title, description,
                            IF fless(acc, after_description)
                            THEN after_description ELSE acc)

\* The score after the keywords from the k-th on, acc being the score so
\* far: `score += 0.6` and `score += 0.4`, keyword by keyword.
RECURSIVE score_from(_, _, _, _)
score_from(k, title, description, acc) ==
    IF k > Len(trump_keywords) THEN acc
    ELSE LET after_title ==
                 IF contains(trump_keywords[k], title)
                 THEN fadd(acc, TitleWeight) ELSE acc
             after_description ==
                 IF contains(trump_keywords[k], description)
                 THEN fadd(after_title, DescriptionWeight) ELSE after_title
         IN  score_from(k + 1, title, description, after_description)

\* `score = 0`, then the loop over the keywords.
score(video) ==
    score_from(1, lower(video.title), lower(video.description), Zero)

\* A variant of the test that also keeps a score equal to the selectivity.
kept_or_equal(video, selectivity) == ~fless(score(video), selectivity)

\* `if score > selectivity`.
kept(video, selectivity) == fless(selectivity, score(video))

filter_trump_videos(vs, selectivity) ==
    LET Keep(video) == kept(video, selectivity)
    IN  SelectSeq(vs, Keep)

----------------------------------------------------------------------------
(* VideoProcessor.evaluate_commentary.                                     *)

\* A transcript longer than this is sampled at three places.
SampleThreshold == 3000
\* The length of one sample, and half of it.
SampleLength == 1000
HalfSample == 500
\* Below this confidence a decision needs review.
ReviewThreshold == 70

\* A variant of the sampling that already samples a transcript of exactly
\* SampleThreshold characters.
sample_slices_inclusive(n) ==
    IF n >= SampleThreshold
    THEN << << 0, SampleLength >>,
            << n \div 2 - HalfSample, n \div 2 + HalfSample >>,
            << n - SampleLength, n >> >>
    ELSE << << 0, n >> >>

\* The samples of a transcript of n characters, as Python slices
\* << from, to >> of transcript_text.
sample_slices(n) ==
    IF n > SampleThreshold
    THEN << << 0, SampleLength >>,
            << n \div 2 - HalfSample, n \div 2 + HalfSample >>,
            << n - SampleLength, n >> >>
    ELSE << << 0, n >> >>

\* What commentary_chain.run answers for one sample: JSON with the three
\* scores, JSON without them, text that is no JSON, or an exception.
Scores(a, b, c) ==
    [kind |-> "json",
     data |-> [no_commentary_confidence |-> FromInt(a),
               minimal_commentary_confidence |-> FromInt(b),
               substantial_commentary_confidence |-> FromInt(c)]]
\* The same with numbers of any kind.
NumScores(a, b, c) ==
    [kind |-> "json",
     data |-> [no_commentary_confidence |-> a,
               minimal_commentary_confidence |-> b,
               substantial_commentary_confidence |-> c]]
NoScores == [kind |-> "json", data |-> [reasoning |-> "unclear"]]
Malformed == [kind |-> "malformed"]
Raises == [kind |-> "raise"]

has_scores(e) ==
    {"no_commentary_confidence", "minimal_commentary_confidence",
     "substantial_commentary_confidence"} \subseteq DOMAIN e

\* A variant of sum() that keeps the last item only.
RECURSIVE sum_from_last(_, _, _)
sum_from_last(evaluations, field, acc) ==
    IF evaluations = <<>> THEN acc
    ELSE sum_from_last(Tail(evaluations), field, Head(evaluations)[field])

\* sum(): the items are added to acc from left to right.
RECURSIVE sum_from(_, _, _)
sum_from(evaluations, field, acc) ==
    IF evaluations = <<>> THEN acc
    ELSE sum_from(Tail(evaluations), field,
                  fadd(acc, Head(evaluations)[field]))

\* A variant of the sum that takes the first evaluation only.
sum_of_head(evaluations, field) == Head(evaluations)[field]

\* sum(e[field] for e in evaluations), which starts from the int 0.
sum_of(evaluations, field) == sum_from(evaluations, field, Zero)

\* A variant of the undetermined decision that asks for no review.
undetermined_decision_no_review(video_id) ==
    [video_id |-> video_id, commentary_level |-> "undetermined",
     confidence |-> Zero, needs_review |-> FALSE]

\* The decision returned when no sample parsed.
undetermined_decision(video_id) ==
    [video_id |-> video_id, commentary_level |-> "undetermined",
     confidence |-> Zero, needs_review |-> TRUE]

\* A variant of the error decision that asks for no review.
error_decision_silent(video_id, message) ==
    [video_id |-> video_id, commentary_level |-> "error",
     confidence |-> Zero, needs_review |-> FALSE, error |-> message]

\* The decision returned by the except clause.
error_decision(video_id, message) ==
    [video_id |-> video_id, commentary_level |-> "error",
     confidence |-> Zero, needs_review |-> TRUE, error |-> message]

\* A variant of the review test that also flags a confidence of exactly 70.
needs_review_of_inclusive(confidence) ==
    ~fless(FromInt(ReviewThreshold), confidence)

\* `needs_review = confidence < 70`.
needs_review_of(confidence) == fless(confidence, FromInt(ReviewThreshold))

\* A variant of the classification in which a tie for the top goes to the
\* first of the tied dimensions.
decision_of_first_max(video_id, evaluations, avg_no_commentary, avg_minimal, avg_substantial) ==
    LET final_classification ==
            IF ~fless(avg_no_commentary, avg_minimal)
               /\ ~fless(avg_no_commentary, avg_substantial)
            THEN "no_commentary"
            ELSE IF ~fless(avg_minimal, avg_substantial)
            THEN "minimal_commentary"
            ELSE "substantial_commentary"
        confidence ==
            CASE final_classification = "no_commentary" -> avg_no_commentary
              [] final_classification = "minimal_commentary" -> avg_minimal
              [] OTHER -> avg_substantial
    IN  [video_id |-> video_id,
         commentary_level |-> final_classification,
         confidence |-> confidence,
         needs_review |-> needs_review_of(confidence),
         evaluations |-> evaluations]

\* Lines 261-283: the classification by the strict maximum of the three
\* averages, the confidence, the review flag and the decision.
decision_of(video_id, evaluations, avg_no_commentary, avg_minimal, avg_substantial) ==
    LET final_classification ==
            IF fless(avg_minimal, avg_no_commentary)
               /\ fless(avg_substantial, avg_no_commentary)
            THEN "no_commentary"
            ELSE IF fless(avg_no_commentary, avg_minimal)
                    /\ fless(avg_substantial, avg_minimal)
            THEN "minimal_commentary"
            ELSE IF fless(avg_no_commentary, avg_substantial)
                    /\ fless(avg_minimal, avg_substantial)
            THEN "substantial_commentary"
            ELSE "undetermined"
        confidence ==
            CASE final_classification = "no_commentary" -> avg_no_commentary
              [] final_classification = "minimal_commentary" -> avg_minimal
              [] final_classification = "substantial_commentary" ->
                    avg_substantial
              [] OTHER -> Zero
    IN  [video_id |-> video_id,
         commentary_level |-> final_classification,
         confidence |-> confidence,
         needs_review |-> needs_review_of(confidence),
         evaluations |-> evaluations]

\* The aggregation of at least one parsed evaluation, all with scores: the
\* three averages of lines 257-259, then the decision.
aggregate(video_id, evaluations) ==
    decision_of(video_id, evaluations,
                fdiv(sum_of(evaluations, "no_commentary_confidence"),
                     Len(evaluations)),
                fdiv(sum_of(evaluations, "minimal_commentary_confidence"),
                     Len(evaluations)),
                fdiv(sum_of(evaluations, "substantial_commentary_confidence"),
                     Len(evaluations)))

\* The body of the try block: what it returns, or the exception raised in
\* it; downloaded tells whether the audio file was written.
\*   dl: "ok", "no_stream" (no audio stream) or "raise" (pytube fails);
\*   tr: [kind |-> "ok", length |-> len(transcript_text)] or
\*       [kind |-> "raise"] (whisper fails);
\*   responses: the evaluator's answers, one per sample.
try_evaluate(video, dl, tr, responses) ==
    IF dl = "raise"
    THEN [exception |-> "download failed", downloaded |-> FALSE]
    ELSE IF dl = "no_stream"
    THEN [value |-> None, downloaded |-> FALSE]
    ELSE IF tr.kind = "raise"
    THEN [exception |-> "transcription failed", downloaded |-> TRUE]
    ELSE
      LET segments == sample_slices(tr.length)
          answers == SubSeq(responses, 1, Len(segments))
          IsJson(r) == r.kind = "json"
          parsed == SelectSeq(answers, IsJson)
          evaluations == [i \in 1..Len(parsed) |-> parsed[i].data]
      IN  IF \E i \in 1..Len(answers) : answers[i].kind = "raise"
          THEN [exception |-> "evaluator failed", downloaded |-> TRUE]
          ELSE IF evaluations = <<>>
          THEN [value |-> undetermined_decision(video.videoId),
                downloaded |-> TRUE]
          ELSE IF \E i \in 1..Len(evaluations) : ~has_scores(evaluations[i])
          THEN [exception |-> "KeyError", downloaded |-> TRUE]
          ELSE [value |-> aggregate(video.videoId, evaluations),
                downloaded |-> TRUE]

\* A variant of evaluate_commentary whose except clause is missing: the
\* exception leaves the method.
evaluate_commentary_uncaught(video, dl, tr, responses) ==
    try_evaluate(video, dl, tr, responses)

\* evaluate_commentary(video): `except Exception` turns every exception of
\* the body into the error decision.
evaluate_commentary(video, dl, tr, responses) ==
    LET r == try_evaluate(video, dl, tr, responses)
    IN  IF "exception" \in DOMAIN r
        THEN [value |-> error_decision(video.videoId, r.exception),
              downloaded |-> r.downloaded]
        ELSE r

\* What the services can answer during one evaluation under Spec.
DownloadOutcomes == {"ok", "no_stream", "raise"}
TranscriptLengths == {SampleThreshold, SampleThreshold + 1}
TranscribeOutcomes ==
    { [kind |-> "raise"] }
        \cup { [kind |-> "ok", length |-> n] : n \in TranscriptLengths }
EvaluatorAnswers ==
    { << Scores(90, 5, 5), Scores(90, 5, 5), Scores(90, 5, 5) >>,
      << Scores(5, 90, 5), Scores(5, 80, 5), Malformed >>,
      << Scores(5, 5, 90), Scores(5, 5, 90), Scores(5, 5, 90) >>,
      << Scores(5, 5, 90), Scores(90, 5, 5), Scores(5, 5, 90) >>,
      << Scores(5, 5, 60), Malformed, Scores(5, 5, 70) >>,
      << Scores(50, 50, 5), Scores(50, 50, 5), Scores(50, 50, 5) >>,
      << Malformed, Malformed, Malformed >>,
      << NoScores, Scores(90, 5, 5), Scores(90, 5, 5) >>,
      << Scores(5, 5, 90), Raises, Scores(5, 5, 90) >> }

----------------------------------------------------------------------------
(* VideoProcessor.process_channel, save_processed_data and run_pipeline.   *)

\* A variant of the gate with the review flag read the wrong way round.
gated_inverted(decision) ==
    /\ decision.commentary_level = "substantial_commentary"
    /\ decision.needs_review

\* A variant of the gate that ignores the review flag.
gated_any_substantial(decision) ==
    decision.commentary_level = "substantial_commentary"

\* The gate: substantial commentary that needs no review is skipped.
gated(decision) ==
    /\ decision.commentary_level = "substantial_commentary"
    /\ ~decision.needs_review

\* The metadata record process_channel builds.
create_metadata(video, channel_name, channel_url, decision, now) ==
    [video_id |-> video.videoId,
     title |-> video.title,
     channel_name |-> channel_name,
     channel_url |-> channel_url,
     published_at |-> video.publishedAt,
     description |-> video.description,
     commentary_evaluation |-> decision,
     processed_at |-> now]

\* A variant of the write that keeps the fields of the earlier record which
\* the new one does not have.
write_file_merge(store, video_id, record) ==
    [v \in DOMAIN store \cup {video_id} |->
        IF v # video_id THEN store[v]
        ELSE IF v \in DOMAIN store THEN record @@ store[v]
        ELSE record]

\* `json.dump(record, f)` into the file of video_id: the file is replaced.
write_file(store, video_id, record) ==
    [v \in DOMAIN store \cup {video_id} |->
        IF v = video_id THEN record ELSE store[v]]

\* A variant of save_processed_data that writes the transcript first.
save_order_swapped == << "transcript", "metadata" >>

\* save_processed_data: the metadata file is written, then the transcript
\* file.
save_order == << "metadata", "transcript" >>

\* What the two speech services can answer in process_transcript under Spec.
AlignCases ==
    { [diarization |-> <<>>, transcription |-> Transcribe(<<>>)],
      [diarization |-> << [start |-> 0, end |-> 2, speaker |-> "SPEAKER_00"] >>,
       transcription |->
          Transcribe(<< [start |-> 0, end |-> 1, text |-> <<" ", "a">>],
                        [start |-> 1, end |-> 3, text |-> <<" ", "b">>] >>)] }

\* What the history keeps of a decision.
summary(decision) ==
    IF decision = None THEN None
    ELSE [commentary_level |-> decision.commentary_level,
          needs_review |-> decision.needs_review]

\* The current video and its key.
Video == trump_videos[vidx]
Key == << chan, Video.position >>
KeyOf(c, video) == << c, video.position >>

\* f with key k set to v (k may be new).
Put(f, k, v) == [x \in DOMAIN f \cup {k} |-> IF x = k THEN v ELSE f[x]]

\* Nothing of the pipeline runs (under SpecAlign).
RunIdle ==
    /\ pc = "idle"
    /\ sources = <<>>
    /\ chan = 1
    /\ videos = <<>>
    /\ trump_videos = <<>>
    /\ vidx = 1
    /\ commentary_eval = None
    /\ transcript = None
    /\ metadata = None
    /\ audio_files = {}
    /\ metadata_store = <<>>
    /\ transcript_store = <<>>
    /\ issued = 0
    /\ clock = 0
    /\ raised_in = "none"
    /\ vstate = <<>>
    /\ decisions = <<>>
    /\ eval_inputs = None
    /\ invoked = {}
    /\ writes = {}

\* Nothing of the aligner runs on its own (under Spec).
AlignIdle ==
    /\ apc = "idle"
    /\ diarization = <<>>
    /\ transcription = Transcribe(<<>>)
    /\ result = None

\* filter_trump_videos does not run on its own.
FilterIdle ==
    /\ fpc = "idle"
    /\ f_videos = <<>>
    /\ f_selectivity = Zero
    /\ f_trump_videos = <<>>

\* The evaluation loop does not run on its own.
EvalIdle ==
    /\ epc = "idle"
    /\ e_length = 0
    /\ e_segments = <<>>
    /\ e_idx = 1
    /\ e_answers = <<>>
    /\ e_evaluations = <<>>
    /\ e_decision = None

\* The paging loop does not run on its own.
PageIdle ==
    /\ gpc = "idle"
    /\ g_uploads = <<>>
    /\ g_max_results = 0
    /\ g_videos = <<>>
    /\ g_token = None
    /\ g_requests = <<>>
    /\ g_empties = 0

\* get_channel_videos does not run on its own.
ListIdle ==
    /\ lpc = "idle"
    /\ l_url = <<>>
    /\ l_max_results = 0
    /\ l_channel_id = <<>>
    /\ l_lookup = None
    /\ l_failure = "none"
    /\ l_result = <<>>

\* save_processed_data does not run on its own.
StoreIdle ==
    /\ spc = "idle"
    /\ s_call = None
    /\ s_written = 0
    /\ s_metadata_dir = <<>>
    /\ s_transcript_dir = <<>>
    /\ s_saved = <<>>
    /\ s_calls = 0

\* VideoProcessor() and the call of run_pipeline, with empty data
\* directories.
Init ==
    /\ StoreIdle
    /\ ListIdle
    /\ AlignIdle
    /\ FilterIdle
    /\ EvalIdle
    /\ PageIdle
    /\ pc = "channel"
    /\ sources = init_sources(Config)
    /\ chan = 1
    /\ videos = <<>>
    /\ trump_videos = <<>>
    /\ vidx = 1
    /\ commentary_eval = None
    /\ transcript = None
    /\ metadata = None
    /\ audio_files = {}
    /\ metadata_store = <<>>
    /\ transcript_store = <<>>
    /\ issued = 0
    /\ clock = 0
    /\ raised_in = "none"
    /\ vstate = <<>>
    /\ decisions = <<>>
    /\ eval_inputs = None
    /\ invoked = {}
    /\ writes = {}

\* An exception leaves process_channel and run_pipeline: the run ends.
Propagate(where) ==
    /\ pc' = "raised"
    /\ raised_in' = where

\* `continue`: on to the next video of the channel.
Continue ==
    /\ pc' = "video"
    /\ vidx' = vidx + 1
    /\ commentary_eval' = None
    /\ transcript' = None
    /\ metadata' = None
    /\ eval_inputs' = None

\* process_channel up to the video loop: list the channel, filter it.
ListChannel ==
    /\ pc = "channel"
    /\ chan <= Len(sources)
    /\ \E outcome \in ProviderOutcomes :
         LET listed == get_channel_videos(sources[chan].url,
                                          MaxVideosPerChannel, outcome)
             filtered == filter_trump_videos(listed.videos,
                                             sources[chan].selectivity)
             IsKept(video) == \E i \in 1..Len(filtered) : filtered[i] = video
         IN  IF listed.raised
             THEN /\ Propagate("get_channel_videos")
                  /\ UNCHANGED << videos, trump_videos, vidx, vstate >>
             ELSE /\ videos' = listed.videos
                  /\ trump_videos' = filtered
                  /\ vidx' = 1
                  /\ pc' = "video"
                  /\ vstate' =
                        [k \in DOMAIN vstate
                               \cup { KeyOf(chan, listed.videos[i]) :
                                        i \in 1..Len(listed.videos) } |->
                            IF k \in DOMAIN vstate THEN vstate[k]
                            ELSE IF \E i \in 1..Len(filtered) :
                                       KeyOf(chan, filtered[i]) = k
                            THEN "filtered_in" ELSE "filtered_out"]
                  /\ UNCHANGED raised_in
    /\ UNCHANGED << align_vars, unit_vars, sources, chan, commentary_eval, transcript, metadata, audio_files, metadata_store, transcript_store, issued, clock, decisions, eval_inputs, invoked, writes >>

\* The video loop is over: run_pipeline takes the next channel.
EndChannel ==
    /\ pc = "video"
    /\ vidx > Len(trump_videos)
    /\ chan' = chan + 1
    /\ pc' = "channel"
    /\ UNCHANGED << align_vars, unit_vars, sources, videos, trump_videos, vidx, commentary_eval, transcript, metadata, audio_files, metadata_store, transcript_store, issued, clock, raised_in, hist_vars >>

\* run_pipeline returns.
EndRun ==
    /\ pc = "channel"
    /\ chan > Len(sources)
    /\ pc' = "done"
    /\ UNCHANGED << align_vars, unit_vars, sources, chan, videos, trump_videos, vidx, commentary_eval, transcript, metadata, audio_files, metadata_store, transcript_store, issued, clock, raised_in, hist_vars >>

\* commentary_eval = self.evaluate_commentary(video).
Evaluate ==
    /\ pc = "video"
    /\ vidx <= Len(trump_videos)
    /\ \E dl \in DownloadOutcomes, tr \in TranscribeOutcomes,
          responses \in EvaluatorAnswers :
         LET r == evaluate_commentary(Video, dl, tr, responses)
         IN  /\ audio_files' =
                   IF r.downloaded THEN audio_files \cup {Video.videoId}
                   ELSE audio_files
             /\ eval_inputs' = [dl |-> dl, tr |-> tr, responses |-> responses]
             /\ IF "exception" \in DOMAIN r
                THEN /\ Propagate("evaluate_commentary")
                     /\ vstate' = Put(vstate, Key, "raised")
                     /\ UNCHANGED << commentary_eval, decisions >>
                ELSE /\ commentary_eval' = r.value
                     /\ decisions' = Put(decisions, Key, summary(r.value))
                     /\ vstate' = Put(vstate, Key, "classified")
                     /\ pc' = "gate"
                     /\ UNCHANGED raised_in
    /\ UNCHANGED << align_vars, unit_vars, sources, chan, videos, trump_videos, vidx, transcript, metadata, metadata_store, transcript_store, issued, clock, invoked, writes >>

\* `if not commentary_eval: continue`.
NoEvaluation ==
    /\ pc = "gate"
    /\ commentary_eval = None
    /\ Continue
    /\ vstate' = Put(vstate, Key, "no_evaluation")
    /\ UNCHANGED << align_vars, unit_vars, sources, chan, videos, trump_videos, audio_files, metadata_store, transcript_store, issued, clock, raised_in, decisions, invoked, writes >>

\* The gate skips the video.
Skip ==
    /\ pc = "gate"
    /\ commentary_eval # None
    /\ gated(commentary_eval)
    /\ Continue
    /\ vstate' = Put(vstate, Key, "skipped")
    /\ UNCHANGED << align_vars, unit_vars, sources, chan, videos, trump_videos, audio_files, metadata_store, transcript_store, issued, clock, raised_in, decisions, invoked, writes >>

\* The gate lets the video through.
Pass ==
    /\ pc = "gate"
    /\ commentary_eval # None
    /\ ~gated(commentary_eval)
    /\ pc' = "align"
    /\ eval_inputs' = None
    /\ UNCHANGED << align_vars, unit_vars, sources, chan, videos, trump_videos, vidx, commentary_eval, transcript, metadata, audio_files, metadata_store, transcript_store, issued, clock, raised_in, vstate, decisions, invoked, writes >>

\* transcript = self.process_transcript(video_id) returns, and on a
\* transcript the metadata record is built.
Align ==
    /\ pc = "align"
    /\ invoked' = invoked \cup {Key}
    /\ \E case \in AlignCases :
         LET t == process_transcript(Video.videoId,
                                     Video.videoId \in audio_files,
                                     case.diarization, case.transcription,
                                     issued, clock)
         IN  IF t = None
             THEN /\ Continue
                  /\ vstate' = Put(vstate, Key, "not_aligned")
                  /\ UNCHANGED << issued, clock >>
             ELSE /\ transcript' = t
                  /\ metadata' = create_metadata(Video,
                                                 sources[chan].channel_name,
                                                 sources[chan].url,
                                                 commentary_eval, clock + 1)
                  /\ issued' = issued + Len(t.segments)
                  /\ clock' = clock + 2
                  /\ pc' = "save_metadata"
                  /\ vstate' = Put(vstate, Key, "aligned")
                  /\ UNCHANGED << vidx, commentary_eval, eval_inputs >>
    /\ UNCHANGED << align_vars, unit_vars, sources, chan, videos, trump_videos, audio_files, metadata_store, transcript_store, raised_in, decisions, writes >>

\* The diarization or the transcription of process_transcript raises.
AlignFails ==
    /\ pc = "align"
    /\ Video.videoId \in audio_files
    /\ invoked' = invoked \cup {Key}
    /\ Propagate("process_transcript")
    /\ vstate' = Put(vstate, Key, "raised")
    /\ UNCHANGED << align_vars, unit_vars, sources, chan, videos, trump_videos, vidx, commentary_eval, transcript, metadata, audio_files, metadata_store, transcript_store, issued, clock, decisions, eval_inputs, writes >>

\* save_processed_data writes the metadata file.
SaveMetadata ==
    /\ pc = "save_metadata"
    /\ metadata_store' = write_file(metadata_store, Video.videoId, metadata)
    /\ writes' = writes \cup { << Key, "metadata" >> }
    /\ pc' = "save_transcript"
    /\ UNCHANGED << align_vars, unit_vars, sources, chan, videos, trump_videos, vidx, commentary_eval, transcript, metadata, audio_files, transcript_store, issued, clock, raised_in, vstate, decisions, eval_inputs, invoked >>

\* Writing the metadata file fails (the disk is full).
SaveMetadataFails ==
    /\ pc = "save_metadata"
    /\ Propagate("save_metadata")
    /\ vstate' = Put(vstate, Key, "raised")
    /\ UNCHANGED << align_vars, unit_vars, sources, chan, videos, trump_videos, vidx, commentary_eval, transcript, metadata, audio_files, metadata_store, transcript_store, issued, clock, decisions, eval_inputs, invoked, writes >>

\* save_processed_data writes the transcript file; the video is done.
SaveTranscript ==
    /\ pc = "save_transcript"
    /\ transcript_store' =
          write_file(transcript_store, Video.videoId, transcript)
    /\ writes' = writes \cup { << Key, "transcript" >> }
    /\ Continue
    /\ vstate' = Put(vstate, Key, "persisted")
    /\ UNCHANGED << align_vars, unit_vars, sources, chan, videos, trump_videos, audio_files, metadata_store, issued, clock, raised_in, decisions, invoked >>

\* Writing the transcript file fails.
SaveTranscriptFails ==
    /\ pc = "save_transcript"
    /\ Propagate("save_transcript")
    /\ vstate' = Put(vstate, Key, "raised")
    /\ UNCHANGED << align_vars, unit_vars, sources, chan, videos, trump_videos, vidx, commentary_eval, transcript, metadata, audio_files, metadata_store, transcript_store, issued, clock, decisions, eval_inputs, invoked, writes >>

Next ==
    \/ ListChannel
    \/ EndChannel
    \/ EndRun
    \/ Evaluate
    \/ NoEvaluation
    \/ Skip
    \/ Pass
    \/ Align
    \/ AlignFails
    \/ SaveMetadata
    \/ SaveMetadataFails
    \/ SaveTranscript
    \/ SaveTranscriptFails

Spec == Init /\ [][Next]_vars

----------------------------------------------------------------------------
(* Properties of the pipeline, checked under Spec.                         *)

\* The decision recorded for key k is substantial commentary, no review.
GatedDecision(k) ==
    /\ k \in DOMAIN decisions
    /\ decisions[k] # None
    /\ decisions[k].commentary_level = "substantial_commentary"
    /\ ~decisions[k].needs_review

\* evaluate_commentary returned no decision for key k.
NoDecision(k) == k \in DOMAIN decisions /\ decisions[k] = None

\* The processing of the video of key k is over.
Finished(k) ==
    vstate[k] \in {"no_evaluation", "skipped", "not_aligned", "persisted", "raised"}

\* C1: a video whose decision is substantial_commentary with needs_review
\* false ends skipped: process_transcript is never invoked for it and its
\* processing writes neither record.
GatingSkips ==
    \A k \in DOMAIN decisions :
        GatedDecision(k) =>
            /\ k \notin invoked
            /\ << k, "metadata" >> \notin writes
            /\ << k, "transcript" >> \notin writes
            /\ vstate[k] \in {"classified", "skipped"}
            /\ vstate[k] = "classified" => (pc = "gate" /\ Key = k)

\* C1 witness: the run is over, a video was skipped at the gate and another
\* one was persisted.
GatingSkipsWitness ==
    /\ pc = "done"
    /\ \E k \in DOMAIN decisions : GatedDecision(k) /\ vstate[k] = "skipped"
    /\ \E k \in DOMAIN vstate : vstate[k] = "persisted"

\* The calls made for one video inside the loop of process_channel.
VideoStages ==
    {"evaluate_commentary", "process_transcript", "save_metadata", "save_transcript"}

\* C2 (as claimed): no failure of a stage of one video leaves the video
\* loop, so the run always gets to every later video and channel.
VideoFailureContained ==
    /\ ~(pc = "raised" /\ raised_in \in VideoStages)
    /\ (pc \in {"done", "raised"} /\ raised_in # "get_channel_videos") =>
          /\ chan > Len(sources)
          /\ \A k \in DOMAIN vstate : vstate[k] # "filtered_in"

\* C3 (as claimed): for a video whose decision is error, process_channel
\* writes neither a transcript record nor a metadata record.
ErrorNeverPersisted ==
    \A k \in DOMAIN decisions :
        (decisions[k] # None /\ decisions[k].commentary_level = "error") =>
            /\ << k, "transcript" >> \notin writes
            /\ << k, "metadata" >> \notin writes

\* The number of samples evaluated for a transcript of n characters.
NumSamples(n) == IF n > 3000 THEN 3 ELSE 1

\* An exception is raised during the evaluation with these answers: by the
\* download, by the transcription, by the evaluator on one of the samples,
\* or by the aggregation on a parsed answer that lacks a score.
Failing(inp) ==
    \/ inp.dl = "raise"
    \/ /\ inp.dl = "ok"
       /\ \/ inp.tr.kind = "raise"
          \/ /\ inp.tr.kind = "ok"
             /\ \E i \in 1..NumSamples(inp.tr.length) :
                   \/ inp.responses[i].kind = "raise"
                   \/ /\ inp.responses[i].kind = "json"
                      /\ "no_commentary_confidence"
                            \notin DOMAIN inp.responses[i].data

\* C4: evaluate_commentary never raises, and whenever the download, the
\* transcription or the evaluation raised, it returns the decision
\* {commentary_level: error, confidence: 0, needs_review: true, error: message}
\* of the video.
EvaluateCatches ==
    /\ raised_in # "evaluate_commentary"
    /\ (pc = "gate" /\ Failing(eval_inputs)) =>
          /\ DOMAIN commentary_eval =
                {"video_id", "commentary_level", "confidence", "needs_review", "error"}
          /\ commentary_eval.video_id = Video.videoId
          /\ commentary_eval.commentary_level = "error"
          /\ commentary_eval.confidence = Zero
          /\ commentary_eval.needs_review = TRUE
          /\ commentary_eval.error
                \in {"download failed", "transcription failed", "evaluator failed", "KeyError"}

\* C4 witness: the transcription raised and the error decision stands at
\* the gate.
EvaluateCatchesWitness ==
    /\ pc = "gate"
    /\ eval_inputs.dl = "ok"
    /\ eval_inputs.tr.kind = "raise"
    /\ commentary_eval.commentary_level = "error"

\* C5 (as claimed): a video whose processing is over was dropped before
\* process_transcript if and only if its decision is substantial_commentary
\* with needs_review false.
DroppedIffGated ==
    \A k \in DOMAIN decisions :
        Finished(k) => ((k \notin invoked) <=> GatedDecision(k))

\* C5 (amended): a video whose processing is over was dropped before
\* process_transcript if and only if evaluate_commentary returned no
\* decision for it or its decision is substantial_commentary with
\* needs_review false; with any other decision process_transcript is invoked.
DroppedIffGatedOrNoDecision ==
    \A k \in DOMAIN decisions :
        Finished(k) =>
            ((k \notin invoked) <=> (NoDecision(k) \/ GatedDecision(k)))

\* C5 witness: process_transcript was invoked for a video of substantial
\* commentary that needs review, and for a video whose decision is error.
DroppedIffGatedWitness ==
    /\ \E k \in DOMAIN decisions :
          /\ Finished(k)
          /\ decisions[k] # None
          /\ decisions[k].commentary_level = "substantial_commentary"
          /\ decisions[k].needs_review
          /\ k \in invoked
    /\ \E k \in DOMAIN decisions :
          /\ Finished(k)
          /\ decisions[k] # None
          /\ decisions[k].commentary_level = "error"
          /\ k \in invoked

----------------------------------------------------------------------------
(* SpecAlign: process_transcript on every bounded pair of inputs.          *)

\* The video the aligner runs on under SpecAlign.
AlignVideo == "v1"

InitAlign ==
    /\ StoreIdle
    /\ ListIdle
    /\ RunIdle
    /\ FilterIdle
    /\ EvalIdle
    /\ PageIdle
    /\ apc = "input"
    /\ diarization \in Diarizations
    /\ transcription \in Transcriptions
    /\ result = None

\* process_transcript returns: None without the audio file, else a transcript.
AlignReturns ==
    /\ apc = "input"
    /\ \E audio_exists \in BOOLEAN :
         result' = process_transcript(AlignVideo, audio_exists, diarization,
                                      transcription, 0, 0)
    /\ apc' = "returned"
    /\ UNCHANGED << diarization, transcription, run_vars, hist_vars, unit_vars >>

\* diarization_pipeline(...) or whisper_model.transcribe(...) raises: nothing
\* in process_transcript catches it.
AlignRaises ==
    /\ apc = "input"
    /\ apc' = "raised"
    /\ UNCHANGED << diarization, transcription, result, run_vars, hist_vars, unit_vars >>

NextAlign == AlignReturns \/ AlignRaises

SpecAlign == InitAlign /\ [][NextAlign]_vars

\* A transcript was returned.
Returned == apc = "returned" /\ result # None

\* The returned transcript holds the fallback segment (pyannote never uses the
\* default label).
IsFallback ==
    /\ Returned
    /\ Len(result.segments) = 1
    /\ result.segments[1].speaker = DefaultSpeaker

\* The returned transcript holds turn-derived segments.
TurnDerived == Returned /\ ~IsFallback

\* The transcription segments with ss <= te and se >= ts, in their order.
OverlapSet(turn) ==
    LET Test(s) == s.start <= turn.end /\ s.end >= turn.start
    IN  SelectSeq(transcription.segments, Test)

\* Texts joined by a single space.
RECURSIVE JoinSpace(_)
JoinSpace(ss) ==
    IF ss = <<>> THEN <<>>
    ELSE IF Len(ss) = 1 THEN ss[1].text
    ELSE ss[1].text \o <<" ">> \o JoinSpace(Tail(ss))

ExpectedText(turn) == strip(JoinSpace(OverlapSet(turn)))

\* The strictly increasing maps from 1..n into 1..m.
IncreasingMaps(n, m) ==
    { f \in [1..n -> 1..m] : \A i, j \in 1..n : i < j => f[i] < f[j] }

\* The example of the specification: turn [10,20], segments (5,12,a),
\* (15,18,b), (25,30,c).
ExampleSegments ==
    << [start |-> 5, end |-> 12, text |-> <<"a">>],
       [start |-> 15, end |-> 18, text |-> <<"b">>],
       [start |-> 25, end |-> 30, text |-> <<"c">>] >>

ExampleTurn == [start |-> 10, end |-> 20, speaker |-> "SPEAKER_00"]

ExampleAligned ==
    aligned_segments(<< ExampleTurn >>, Transcribe(ExampleSegments))
        = << [start |-> 10, end |-> 20, speaker |-> "SPEAKER_00",
              text |-> <<"a", " ", "b">>] >>

\* C6: every emitted turn-derived segment carries the start, end and speaker
\* of its turn (the segments follow the order of the turns), and its text is
\* the texts of exactly the transcription segments with ss <= te and
\* se >= ts, in order, joined by one space and trimmed; the example turn
\* [10,20] gives the text "a b".
AlignerOverlap ==
    /\ ExampleAligned
    /\ TurnDerived =>
         \E f \in IncreasingMaps(Len(result.segments), Len(diarization)) :
            \A i \in 1..Len(result.segments) :
               /\ result.segments[i].start = diarization[f[i]].start
               /\ result.segments[i].end = diarization[f[i]].end
               /\ result.segments[i].speaker = diarization[f[i]].speaker
               /\ result.segments[i].text = ExpectedText(diarization[f[i]])

\* C6 witness: a turn was emitted with the texts of two overlapping segments
\* joined, a third segment lying outside the turn.
AlignerOverlapWitness ==
    /\ TurnDerived
    /\ Len(transcription.segments) = 3
    /\ Len(diarization) = 1
    /\ Len(OverlapSet(diarization[1])) = 2
    /\ result.segments[1].text = <<"a", " ", "a">>

\* C7: with an empty diarization the transcript holds exactly one segment,
\* from 0 to the end of the last transcription segment (0 without segments),
\* with the default speaker and the concatenation of the segments' texts.
AlignerFallback ==
    (Returned /\ diarization = <<>>) =>
        /\ Len(result.segments) = 1
        /\ result.segments[1].start = 0
        /\ result.segments[1].end =
              (IF transcription.segments = <<>> THEN 0
               ELSE transcription.segments[Len(transcription.segments)].end)
        /\ result.segments[1].speaker = DefaultSpeaker
        /\ result.segments[1].text = ConcatTexts(transcription.segments)

\* C7 witness: the fallback of an empty diarization over several segments.
AlignerFallbackWitness ==
    /\ Returned
    /\ diarization = <<>>
    /\ Len(transcription.segments) >= 2
    /\ transcription.segments[1].end
          < transcription.segments[Len(transcription.segments)].end
    /\ result.segments[1].text # <<>>

\* C8: a returned transcript has at least one segment: either turn-derived
\* segments only, or exactly one fallback segment, and then no turn has any
\* text to give.
AtLeastOneSegment ==
    Returned =>
        /\ Len(result.segments) >= 1
        /\ \/ \A i \in 1..Len(result.segments) :
                 result.segments[i].speaker \in Speakers
           \/ /\ Len(result.segments) = 1
              /\ result.segments[1].speaker = DefaultSpeaker
              /\ \A k \in 1..Len(diarization) :
                    ExpectedText(diarization[k]) = <<>>

\* C8 witness: the fallback taken although the diarization has turns.
AtLeastOneSegmentWitness ==
    /\ IsFallback
    /\ diarization # <<>>
    /\ transcription.segments # <<>>

\* C9 (as claimed): a turn is emitted only if its concatenated, trimmed text
\* is non-empty, so every turn-derived segment has non-empty text.
EmittedTextNonEmpty ==
    TurnDerived =>
        \A i \in 1..Len(result.segments) : result.segments[i].text # <<>>

\* C10 (as claimed): every segment of a returned transcript has start < end.
StartBeforeEnd ==
    Returned =>
        \A i \in 1..Len(result.segments) :
           result.segments[i].start < result.segments[i].end

\* C10 (amended): every segment of a returned transcript has start < end,
\* except the fallback of a transcription without segments, which has
\* start = end = 0.
StartBeforeEndAmended ==
    Returned =>
        \A i \in 1..Len(result.segments) :
           \/ result.segments[i].start < result.segments[i].end
           \/ /\ IsFallback
              /\ transcription.segments = <<>>
              /\ result.segments[i].start = 0
              /\ result.segments[i].end = 0

\* C10 witness: a fallback segment over a transcription with segments.
StartBeforeEndWitness ==
    /\ IsFallback
    /\ transcription.segments # <<>>
    /\ result.segments[1].start < result.segments[1].end

\* C11 (as claimed): the segments of a returned transcript are in
\* non-decreasing start order and no two of them have overlapping time
\* intervals (intervals that only touch at an end point do not overlap).
AlignedOrderedNonOverlapping ==
    Returned =>
        \A i, j \in 1..Len(result.segments) :
            i < j =>
                /\ result.segments[i].start <= result.segments[j].start
                /\ ~(/\ result.segments[i].start < result.segments[j].end
                     /\ result.segments[j].start < result.segments[i].end)

----------------------------------------------------------------------------
(* SpecFilter: filter_trump_videos on bounded lists and selectivities.     *)

\* The argument videos has at most MaxFilterList descriptors.
MaxFilterList == 2

\* The descriptors the lists are made of: the two of
\* tests/test_youtube_api.py, a title in capitals, a description-only match,
\* a title-only match and a description with three keywords.
FilterCatalogue ==
    { Item(1, "v1", TitleRally, DescRally, 30),
      Item(2, "v2", TitleInterview, DescInterview, 20),
      Item(3, "v3", TitleNews, DescNews, 10),
      Item(4, "v4", TitleReaction, DescReaction, 40),
      Item(5, "v5", TitleRally, DescNews, 50),
      Item(6, "v6", TitleNews, DescRally, 60) }

\* The selectivities: ints and floats, among them scores of the catalogue.
Selectivities == { Zero, F0_5, F0_6, F0_8, FromInt(1), F1_2, F1_8 }

InitFilter ==
    /\ StoreIdle
    /\ ListIdle
    /\ AlignIdle
    /\ RunIdle
    /\ EvalIdle
    /\ PageIdle
    /\ fpc = "input"
    /\ f_videos \in UNION { [1..n -> FilterCatalogue] : n \in 0..MaxFilterList }
    /\ f_selectivity \in Selectivities
    /\ f_trump_videos = <<>>

\* filter_trump_videos(videos, selectivity) returns.
FilterReturns ==
    /\ fpc = "input"
    /\ f_trump_videos' = filter_trump_videos(f_videos, f_selectivity)
    /\ fpc' = "returned"
    /\ UNCHANGED << f_videos, f_selectivity, align_vars, run_vars, hist_vars, store_vars, list_vars, eval_vars, page_vars >>

NextFilter == FilterReturns

SpecFilter == InitFilter /\ [][NextFilter]_vars

\* The positions of f_videos whose score is strictly greater than the
\* selectivity.
Exceeding ==
    { i \in 1..Len(f_videos) : fless(f_selectivity, score(f_videos[i])) }

\* The score of a descriptor is neither less nor greater than x.
ScoreEquals(video, x) ==
    ~fless(score(video), x) /\ ~fless(x, score(video))

\* The example: with s = 0.5 a title-only match is kept and a descriptor
\* without a match is dropped; a score equal to s is dropped.
FilterExample ==
    LET title_only == Item(5, "v5", TitleRally, DescNews, 50)
        no_match == Item(3, "v3", TitleNews, DescNews, 10)
    IN  /\ ScoreEquals(title_only, F0_6)
        /\ ScoreEquals(no_match, Zero)
        /\ filter_trump_videos(<< no_match, title_only >>, F0_5)
              = << title_only >>
        /\ filter_trump_videos(<< no_match, title_only >>, F0_6) = <<>>

\* C12: the list returned is the sub-list of the argument (same order,
\* nothing added) made of exactly the descriptors whose score is strictly
\* greater than the selectivity; a score equal to the selectivity is
\* dropped, as in the example with s = 0.5.
FilterStrictSubset ==
    /\ FilterExample
    /\ fpc = "returned" =>
         \E f \in IncreasingMaps(Len(f_trump_videos), Len(f_videos)) :
            /\ { f[i] : i \in 1..Len(f_trump_videos) } = Exceeding
            /\ \A i \in 1..Len(f_trump_videos) :
                  f_trump_videos[i] = f_videos[f[i]]

\* C12 witness: of two descriptors the one whose score equals the
\* selectivity was dropped and the other one kept.
FilterStrictSubsetWitness ==
    /\ fpc = "returned"
    /\ Len(f_videos) = 2
    /\ Len(f_trump_videos) = 1
    /\ \E i \in 1..2 :
          /\ ScoreEquals(f_videos[i], f_selectivity)
          /\ ~IsZero(f_selectivity)

\* Two characters are the same letter, whatever their case.
SameLetter(c, d) ==
    \/ c = d
    \/ \E n \in 1..Len(UpperCase) : {c, d} = {UpperCase[n], LowerCase[n]}

\* The keyword occurs in the text, case-insensitively.
OccursIgnoringCase(keyword, text) ==
    \E i \in 0..(Len(text) - Len(keyword)) :
        \A j \in 1..Len(keyword) : SameLetter(text[i + j], keyword[j])

\* The number of keywords of the fixed set that occur in a text.
Matches(text) ==
    Cardinality({ k \in 1..Len(trump_keywords) :
                    OccursIgnoringCase(trump_keywords[k], text) })

\* limbs * k + c for a small int k.
RECURSIVE MulCarry(_, _, _)
MulCarry(limbs, k, c) ==
    IF limbs = <<>> THEN (IF c = 0 THEN <<>> ELSE << c >>)
    ELSE LET n == Len(limbs)
             t == limbs[n] * k + c
         IN  MulCarry(SubSeq(limbs, 1, n - 1), k, t \div Base) \o << t % Base >>

\* The float product a * k of a float a >= 0 and a small int k >= 0.
fmul(a, k) ==
    IF k = 0 \/ IsZero(a) THEN Zero
    ELSE Round(MulCarry(Significand(a), k, 0), a.e - (MantissaBits - 1), FALSE)

\* `0.6 * a + 0.4 * b`, a and b being the numbers of keywords that occur in
\* the title and in the description.
WeightedCount(video) ==
    fadd(fmul(F0_6, Matches(video.title)),
         fmul(F0_4, Matches(video.description)))

\* The float nearest to (6 * a + 4 * b) / 10.
NearestToWeightedCount(video) ==
    fdiv(FromInt(6 * Matches(video.title) + 4 * Matches(video.description)),
         10)

\* The float that follows a positive float.
NextFloat(x) == Pack(AddCarry(Significand(x), Zeros(Len(x.f) + 1), 1), x.e)

\* Two floats are equal or neighbours.
Adjacent(x, y) ==
    \/ x = y
    \/ ~IsZero(x) /\ ~IsZero(y) /\ (NextFloat(x) = y \/ NextFloat(y) = x)

\* C13 (as claimed): the score of every descriptor equals 0.6 times the
\* number of keywords occurring in its title plus 0.4 times the number
\* occurring in its description.
ScoreIsWeightedCount ==
    fpc = "returned" =>
        \A i \in 1..Len(f_videos) :
            ScoreEquals(f_videos[i], WeightedCount(f_videos[i]))

\* C13 (amended): the score of every descriptor is the sum, accumulated over
\* all keywords and not capped, of 0.6 per keyword occurring in the title and
\* 0.4 per keyword occurring in the description, up to the rounding of the
\* float additions: it is the float nearest to 0.6 * a + 0.4 * b or a
\* neighbour of it.
ScoreIsAccumulatedCount ==
    fpc = "returned" =>
        \A i \in 1..Len(f_videos) :
            Adjacent(score(f_videos[i]),
                     NearestToWeightedCount(f_videos[i]))

\* C13 witness: a descriptor with one keyword in its title and three in its
\* description was scored above 1.0 and kept, and its score is not the float
\* nearest to 1.8.
ScoreIsAccumulatedCountWitness ==
    /\ fpc = "returned"
    /\ \E i \in 1..Len(f_trump_videos) :
          /\ Matches(f_trump_videos[i].title) = 1
          /\ Matches(f_trump_videos[i].description) = 3
          /\ fless(FromInt(1), score(f_trump_videos[i]))
          /\ fless(score(f_trump_videos[i]), F1_8)

----------------------------------------------------------------------------
(* SpecEval: the sampling, the evaluation loop and the aggregation of      *)
(* evaluate_commentary, step by step, after a download and a transcription *)
(* that succeeded.                                                         *)

\* The longest transcript.
MaxTranscriptLength == 3002

\* len(transcript_text): empty, at the threshold and just below it, and the
\* lengths above it.
EvalLengths ==
    {0, SampleThreshold - 1, SampleThreshold}
        \cup (SampleThreshold + 1)..MaxTranscriptLength

\* What commentary_chain.run can answer for one sample: scores that are
\* ints, scores with a fraction, text that is no JSON, JSON without the
\* scores, or an exception.
EvalAnswers ==
    { Scores(90, 5, 5), Scores(5, 90, 5), Scores(5, 5, 90), Scores(50, 50, 5),
      Scores(5, 5, 60), Scores(5, 5, 80), Scores(70, 20, 10),
      NumScores(F0_1, F0_3, Zero), NumScores(F0_2, F0_2, Zero),
      NumScores(F0_3, F0_1, Zero),
      Malformed, NoScores, Raises }

\* The video evaluated under SpecEval.
EvalVideo == Item(1, "v1", TitleRally, DescRally, 30)

InitEval ==
    /\ StoreIdle
    /\ ListIdle
    /\ AlignIdle
    /\ RunIdle
    /\ FilterIdle
    /\ PageIdle
    /\ epc = "sample"
    /\ e_length \in EvalLengths
    /\ e_segments = <<>>
    /\ e_idx = 1
    /\ e_answers = <<>>
    /\ e_evaluations = <<>>
    /\ e_decision = None

\* Lines 219-228: the samples are drawn.
Sample ==
    /\ epc = "sample"
    /\ e_segments' = sample_slices(e_length)
    /\ epc' = "evaluate"
    /\ UNCHANGED << e_length, e_idx, e_answers, e_evaluations, e_decision, align_vars, run_vars, hist_vars, store_vars, list_vars, filter_vars, page_vars >>

\* One turn of the loop of lines 231-245: the call raises, or its answer is
\* parsed and appended, or its answer does not parse and is dropped.
EvaluateSample ==
    /\ epc = "evaluate"
    /\ e_idx <= Len(e_segments)
    /\ \E answer \in EvalAnswers :
         /\ e_answers' = Append(e_answers, answer)
         /\ IF answer.kind = "raise"
            THEN /\ e_decision' =
                       error_decision(EvalVideo.videoId, "evaluator failed")
                 /\ epc' = "returned"
                 /\ UNCHANGED << e_idx, e_evaluations >>
            ELSE /\ e_evaluations' =
                       IF answer.kind = "json"
                       THEN Append(e_evaluations, answer.data)
                       ELSE e_evaluations
                 /\ e_idx' = e_idx + 1
                 /\ UNCHANGED << epc, e_decision >>
    /\ UNCHANGED << e_length, e_segments, align_vars, run_vars, hist_vars, store_vars, list_vars, filter_vars, page_vars >>

\* Lines 247-283 after the loop: the undetermined decision, the aggregated
\* decision, or the error decision when a parsed answer lacks a score.
Aggregate ==
    /\ epc = "evaluate"
    /\ e_idx > Len(e_segments)
    /\ e_decision' =
          IF e_evaluations = <<>>
          THEN undetermined_decision(EvalVideo.videoId)
          ELSE IF \E i \in 1..Len(e_evaluations) : ~has_scores(e_evaluations[i])
          THEN error_decision(EvalVideo.videoId, "KeyError")
          ELSE aggregate(EvalVideo.videoId, e_evaluations)
    /\ epc' = "returned"
    /\ UNCHANGED << e_length, e_segments, e_idx, e_answers, e_evaluations, align_vars, run_vars, hist_vars, store_vars, list_vars, filter_vars, page_vars >>

NextEval == Sample \/ EvaluateSample \/ Aggregate

SpecEval == InitEval /\ [][NextEval]_vars

\* No call of the evaluator raised.
NoneRaised == \A i \in 1..Len(e_answers) : e_answers[i].kind # "raise"

\* evaluate_commentary returned after the loop ran to its end.
LoopDone == epc = "returned" /\ NoneRaised

\* The answer parsed and carries the three scores.
Scored(answer) == answer.kind = "json" /\ has_scores(answer.data)

\* The data of the scored answers, in order.
ScoredEvaluations ==
    LET scored == SelectSeq(e_answers, Scored)
    IN  [i \in 1..Len(scored) |-> scored[i].data]

\* The step-by-step loop returns what evaluate_commentary returns for the
\* same answers.
LoopIsEvaluateCommentary ==
    epc = "returned" =>
        e_decision =
            evaluate_commentary(EvalVideo, "ok",
                                [kind |-> "ok", length |-> e_length],
                                e_answers \o << Malformed, Malformed >>).value

\* C14: a transcript of more than 3000 characters gives exactly three
\* samples, the first 1000 characters, the 1000 characters centered on the
\* midpoint n div 2 and the last 1000 characters, each of length exactly 1000
\* and inside the transcript; any other transcript gives exactly one sample,
\* the whole transcript; the evaluator is called once per sample.
SamplingPolicy ==
    /\ epc \in {"evaluate", "returned"} =>
         /\ IF e_length > 3000
            THEN /\ e_segments =
                      << << 0, 1000 >>,
                         << (e_length \div 2) - 500, (e_length \div 2) + 500 >>,
                         << e_length - 1000, e_length >> >>
                 /\ \A i \in 1..3 :
                       /\ e_segments[i][2] - e_segments[i][1] = 1000
                       /\ 0 <= e_segments[i][1]
                       /\ e_segments[i][2] <= e_length
            ELSE e_segments = << << 0, e_length >> >>
         /\ Len(e_answers) <= Len(e_segments)
    /\ LoopDone => Len(e_answers) = Len(e_segments)

\* C14 witness: a transcript of 3001 characters was evaluated on three
\* samples.
SamplingPolicyWitness ==
    /\ LoopDone
    /\ e_length = 3001
    /\ Len(e_answers) = 3

\* C15 (as claimed): an answer that does not parse as structured data
\* carrying the three scores is discarded: the evaluator is called once per
\* sample, the decision is the one aggregated from the scored answers (the
\* undetermined decision without any) and its commentary_level is not error.
DiscardedNotError ==
    (LoopDone /\ \E i \in 1..Len(e_answers) : ~Scored(e_answers[i])) =>
        /\ Len(e_answers) = Len(e_segments)
        /\ e_decision.commentary_level # "error"
        /\ e_decision =
              IF ScoredEvaluations = <<>>
              THEN undetermined_decision(EvalVideo.videoId)
              ELSE aggregate(EvalVideo.videoId, ScoredEvaluations)

\* C16: when no sample yields a parsed evaluation, the decision is
\* undetermined, with confidence 0 and needs_review true.
UndeterminedWithoutEvaluations ==
    (LoopDone /\ \A i \in 1..Len(e_answers) : e_answers[i].kind # "json") =>
        e_decision =
            [video_id |-> EvalVideo.videoId,
             commentary_level |-> "undetermined",
             confidence |-> Zero,
             needs_review |-> TRUE]

\* C16 witness: three samples, none of which parsed.
UndeterminedWithoutEvaluationsWitness ==
    /\ LoopDone
    /\ Len(e_answers) = 3
    /\ \A i \in 1..3 : e_answers[i] = Malformed
    /\ e_decision.commentary_level = "undetermined"

\* The decision was aggregated: the loop ran to its end and every parsed
\* answer, at least one, carries the scores.
Aggregated ==
    /\ LoopDone
    /\ e_evaluations # <<>>
    /\ \A i \in 1..Len(e_evaluations) : has_scores(e_evaluations[i])

\* The sum of a score over the first k evaluations of es, in order.
RECURSIVE Total(_, _, _)
Total(es, field, k) ==
    IF k = 0 THEN Zero ELSE fadd(Total(es, field, k - 1), es[k][field])

\* The average of a score over the evaluations es.
Average(es, field) == fdiv(Total(es, field, Len(es)), Len(es))

Dimensions ==
    { [level |-> "no_commentary", field |-> "no_commentary_confidence"],
      [level |-> "minimal_commentary",
       field |-> "minimal_commentary_confidence"],
      [level |-> "substantial_commentary",
       field |-> "substantial_commentary_confidence"] }

\* Two numbers are equal (an int and the float of the same value are).
NumEquals(x, y) == ~fless(x, y) /\ ~fless(y, x)

\* The scenario: the single sample 90/5/5 gives no_commentary with
\* confidence 90 and no review, which the gate lets through to alignment.
SingleSampleExample ==
    LET d == aggregate("v1", << Scores(90, 5, 5).data >>)
    IN  /\ d.commentary_level = "no_commentary"
        /\ NumEquals(d.confidence, FromInt(90))
        /\ d.needs_review = FALSE
        /\ ~gated(d)

\* C17: when the average over all parsed samples of one dimension is
\* strictly greater than the averages of both others, the decision's
\* commentary_level is that dimension and its confidence that average; the
\* single sample 90/5/5 gives no_commentary, 90, no review, and passes the
\* gate.
AggregationAverages ==
    /\ SingleSampleExample
    /\ Aggregated =>
         \A d \in Dimensions :
            (\A o \in Dimensions \ {d} :
                fless(Average(e_evaluations, o.field),
                        Average(e_evaluations, d.field)))
            => /\ e_decision.commentary_level = d.level
               /\ e_decision.confidence = Average(e_evaluations, d.field)

\* C17 witness: two parsed samples of three whose averages 5, 85, 5 make
\* minimal_commentary win with confidence 85.
AggregationAveragesWitness ==
    /\ Aggregated
    /\ Len(e_answers) = 3
    /\ Len(e_evaluations) = 2
    /\ e_decision.commentary_level = "minimal_commentary"
    /\ ~NumEquals(e_evaluations[1].minimal_commentary_confidence,
                  e_evaluations[2].minimal_commentary_confidence)

\* C18: an aggregated decision needs review if and only if its confidence is
\* strictly below 70; a confidence of exactly 70 needs none.
ReviewBelowSeventy ==
    /\ aggregate("v1", << Scores(70, 20, 10).data >>).needs_review = FALSE
    /\ Aggregated =>
         (e_decision.needs_review = TRUE
            <=> fless(e_decision.confidence, FromInt(70)))

\* C18 witness: the averages of 60 and 80 give a confidence of exactly 70
\* and no review.
ReviewBelowSeventyWitness ==
    /\ Aggregated
    /\ Len(e_evaluations) = 2
    /\ e_decision.commentary_level = "substantial_commentary"
    /\ NumEquals(e_decision.confidence, FromInt(70))
    /\ ~NumEquals(e_evaluations[1].substantial_commentary_confidence, FromInt(70))
    /\ e_decision.needs_review = FALSE

\* The permutations of 1..n, and a list in the order of one of them.
Orders(n) ==
    { p \in [1..n -> 1..n] : \A i, j \in 1..n : p[i] = p[j] => i = j }
Permuted(es, p) == [i \in 1..Len(es) |-> es[p[i]]]

\* The decisions of two lists of evaluations agree, and so do the averages.
SameOutcome(es, fs) ==
    /\ \A d \in Dimensions : Average(es, d.field) = Average(fs, d.field)
    /\ aggregate("v1", es).commentary_level
          = aggregate("v1", fs).commentary_level
    /\ aggregate("v1", es).confidence = aggregate("v1", fs).confidence
    /\ aggregate("v1", es).needs_review = aggregate("v1", fs).needs_review

\* C19 (as claimed): the averages and the decision of every permutation of
\* the parsed evaluations are those of the list itself.
AggregationOrderIndependent ==
    Aggregated =>
        \A p \in Orders(Len(e_evaluations)) :
            SameOutcome(e_evaluations, Permuted(e_evaluations, p))

\* A number without fractional part.
IsWhole(x) ==
    \/ IsZero(x)
    \/ /\ x.e >= 0
       /\ ~ShiftRight(Significand(x), (MantissaBits - 1) - x.e).lost

\* Every score of the evaluations is a whole number.
AllInts(es) ==
    \A i \in 1..Len(es) : \A d \in Dimensions : IsWhole(es[i][d.field])

\* C19 (amended): when all scores of the parsed evaluations are whole
\* numbers, whose sums are exact, the averages and the decision of every
\* permutation are those of the list itself.
AggregationOrderIndependentInts ==
    (Aggregated /\ AllInts(e_evaluations)) =>
        \A p \in Orders(Len(e_evaluations)) :
            SameOutcome(e_evaluations, Permuted(e_evaluations, p))

\* C19 witness: three parsed evaluations with whole scores, not all alike,
\* were aggregated.
AggregationOrderIndependentWitness ==
    /\ Aggregated
    /\ Len(e_evaluations) = 3
    /\ AllInts(e_evaluations)
    /\ e_evaluations[1] # e_evaluations[2]
    /\ e_evaluations[2] # e_evaluations[3]
    /\ e_decision.commentary_level = "substantial_commentary"


\* No dimension's average is strictly greater than both others.
NoStrictMaximum(es) ==
    \A d \in Dimensions :
        \E o \in Dimensions \ {d} :
            ~fless(Average(es, o.field), Average(es, d.field))

\* C27: when samples parsed and no dimension's average is strictly greater
\* than both others (two of them tie for the top, or all three are equal),
\* the decision is the one the aggregation computes from the evaluations:
\* undetermined with confidence 0 and need of review, which the gate lets
\* through.
TieUndetermined ==
    (Aggregated /\ NoStrictMaximum(e_evaluations)) =>
        /\ e_decision.commentary_level = "undetermined"
        /\ IsZero(e_decision.confidence)
        /\ e_decision.needs_review = TRUE
        /\ ~gated(e_decision)
        /\ e_decision = aggregate(EvalVideo.videoId, e_evaluations)

\* C27 witness: three different samples whose averages tie three ways, the
\* substantial one among them, were aggregated.
TieUndeterminedWitness ==
    /\ Aggregated
    /\ Len(e_evaluations) = 3
    /\ e_evaluations[1] # e_evaluations[2]
    /\ \A d \in Dimensions : \A o \in Dimensions :
          NumEquals(Average(e_evaluations, d.field),
                    Average(e_evaluations, o.field))
    /\ e_decision.commentary_level = "undetermined"

\* The levels of a decision.
CommentaryLevels ==
    {"no_commentary", "minimal_commentary", "substantial_commentary",
     "undetermined", "error"}

\* C28: a decision returned by evaluate_commentary has one of the five
\* levels; without need of review its level is one of the three commentary
\* levels and its confidence at least 70; an undetermined or error decision
\* has confidence 0 and needs review.
DecisionWellFormed ==
    (epc = "returned" /\ e_decision # None) =>
        /\ e_decision.commentary_level \in CommentaryLevels
        /\ e_decision.needs_review \in BOOLEAN
        /\ e_decision.needs_review = FALSE =>
              /\ e_decision.commentary_level
                    \in {"no_commentary", "minimal_commentary",
                         "substantial_commentary"}
              /\ ~fless(e_decision.confidence, FromInt(70))
        /\ e_decision.commentary_level \in {"undetermined", "error"} =>
              /\ IsZero(e_decision.confidence)
              /\ e_decision.needs_review = TRUE

\* C28 witness: an error decision was returned after two samples had
\* parsed with scores.
DecisionWellFormedWitness ==
    /\ epc = "returned"
    /\ e_decision # None
    /\ e_decision.commentary_level = "error"
    /\ Len(e_evaluations) = 2
    /\ \A i \in 1..2 : has_scores(e_evaluations[i])

----------------------------------------------------------------------------
(* SpecPage: the paging loop of get_channel_videos, request by request,    *)
(* against a provider that returns at most the items asked for.            *)

\* The longest uploads playlist and the largest max_results.
MaxUploads == 120
MaxResults == 101

\* The uploads playlists: items 1, 2, ... newest first.
PageUploads ==
    { [i \in 1..u |-> i] :
        u \in {0, 1, 2, PageCap - 1, PageCap, PageCap + 1, 2 * PageCap,
                MaxUploads} }

\* The values of the argument max_results.
PageMaxResults ==
    {0, 1, 2, PageCap - 1, PageCap, PageCap + 1, 2 * PageCap, MaxResults}

InitPage ==
    /\ StoreIdle
    /\ ListIdle
    /\ AlignIdle
    /\ RunIdle
    /\ FilterIdle
    /\ EvalIdle
    /\ gpc = "loop"
    /\ g_uploads \in PageUploads
    /\ g_max_results \in PageMaxResults
    /\ g_videos = <<>>
    /\ g_token = None
    /\ g_requests = <<>>
    /\ g_empties = 0

\* One turn of the loop of lines 146-160: a page is asked for and appended;
\* the provider returns the items asked for as far as it has them, or one
\* item less, and a token while items remain; or it returns one of its
\* empty pages, with a token.
RequestPage ==
    /\ gpc = "loop"
    /\ loop_guard(Len(g_videos), g_max_results)
    /\ LET maxResults == page_size(g_max_results, Len(g_videos))
           offset == IF g_token = None THEN 0 ELSE g_token.offset
           most == Min(maxResults, Len(g_uploads) - offset)
           pages ==
               { [n |-> n,
                  nextPageToken |->
                      IF offset + n < Len(g_uploads)
                      THEN [offset |-> offset + n] ELSE None,
                  empties |-> g_empties] :
                 n \in { k \in {most, most - 1} : k >= Min(1, most) } }
               \cup IF g_empties > 0
                    THEN { [n |-> 0, nextPageToken |-> [offset |-> offset],
                            empties |-> g_empties - 1] }
                    ELSE {}
       IN  \E page \in pages :
              LET items == SubSeq(g_uploads, offset + 1, offset + page.n)
              IN  /\ g_videos' = g_videos \o items
                  /\ g_token' = page.nextPageToken
                  /\ g_empties' = page.empties
                  /\ g_requests' =
                        Append(g_requests,
                               [maxResults |-> maxResults,
                                collected |-> Len(g_videos),
                                items |-> items])
                  /\ gpc' = IF exits(page.nextPageToken) THEN "returned"
                            ELSE "loop"
    /\ UNCHANGED << g_uploads, g_max_results, align_vars, run_vars, hist_vars, store_vars, list_vars, filter_vars, eval_vars >>

\* The loop condition fails: `return videos`.
ReturnVideos ==
    /\ gpc = "loop"
    /\ ~loop_guard(Len(g_videos), g_max_results)
    /\ gpc' = "returned"
    /\ UNCHANGED << g_uploads, g_max_results, g_videos, g_token, g_requests, g_empties, align_vars, run_vars, hist_vars, store_vars, list_vars, filter_vars, eval_vars >>

NextPage == RequestPage \/ ReturnVideos

SpecPage == InitPage /\ [][NextPage]_vars

\* The items of the pages delivered, in the order of the requests.
RECURSIVE Delivered(_)
Delivered(requests) ==
    IF requests = <<>> THEN <<>>
    ELSE Head(requests).items \o Delivered(Tail(requests))

\* Against full pages the loop returns what playlist_pages computes.
LoopIsPlaylistPages ==
    (/\ gpc = "returned"
     /\ \A i \in 1..Len(g_requests) :
           Len(g_requests[i].items)
              = Min(g_requests[i].maxResults,
                    Len(g_uploads) - g_requests[i].collected))
    => g_videos = playlist_pages(g_uploads, g_max_results, <<>>, 0)

\* C20: the videos collected are never more than max_results, they are the
\* items of the pages in the order delivered, and every request asks for at
\* least one item and at most min(50, max_results minus the number already
\* collected).
PagingBounded ==
    /\ Len(g_videos) <= g_max_results
    /\ g_videos = Delivered(g_requests)
    /\ \A i \in 1..Len(g_requests) :
          /\ g_requests[i].maxResults >= 1
          /\ g_requests[i].maxResults <= 50
          /\ g_requests[i].maxResults
                <= g_max_results - g_requests[i].collected

\* C20 witness: 101 videos were returned out of 120, asked for in pages of
\* 50, 50 and 1.
PagingBoundedWitness ==
    /\ gpc = "returned"
    /\ Len(g_uploads) > g_max_results
    /\ g_max_results > 100
    /\ Len(g_videos) = g_max_results
    /\ Len(g_requests) = 3
    /\ g_requests[3].maxResults = 1

----------------------------------------------------------------------------
(* SpecList: get_channel_videos, provider call by provider call.           *)

\* Further channel references: a handle URL, a channel URL whose id holds
\* the letters "user", a custom URL and the URL of an unknown user.
UrlHandleFox ==
    <<"h", "t", "t", "p", "s", ":", "/", "/", "y", "o", "u", "t", "u", "b",
      "e", ".", "c", "o", "m", "/", "@", "f", "o", "x", "n", "e", "w", "s">>
UrlChannelUser ==
    <<"h", "t", "t", "p", "s", ":", "/", "/", "y", "o", "u", "t", "u", "b",
      "e", ".", "c", "o", "m", "/", "c", "h", "a", "n", "n", "e", "l", "/",
      "U", "C", "u", "s", "e", "r">>
UrlCustom ==
    <<"h", "t", "t", "p", "s", ":", "/", "/", "y", "o", "u", "t", "u", "b",
      "e", ".", "c", "o", "m", "/", "c", "/", "U", "C", "1">>
UrlUserNobody ==
    <<"h", "t", "t", "p", "s", ":", "/", "/", "y", "o", "u", "t", "u", "b",
      "e", ".", "c", "o", "m", "/", "u", "s", "e", "r", "/", "n", "o", "b",
      "o", "d", "y">>

ListUrls ==
    { UrlChannel1, UrlUserFox, UrlHandleFox, UrlChannelUser, UrlCustom,
      UrlUserNobody }

\* The values of the argument max_results, up to more than a playlist
\* holds.
ListMaxResults == 0..(MaxVideosPerChannel + 2)

InitList ==
    /\ StoreIdle
    /\ AlignIdle
    /\ RunIdle
    /\ FilterIdle
    /\ EvalIdle
    /\ PageIdle
    /\ lpc = "resolve"
    /\ l_url \in ListUrls
    /\ l_max_results \in ListMaxResults
    /\ l_channel_id = <<>>
    /\ l_lookup = None
    /\ l_failure = "none"
    /\ l_result = <<>>

\* `return []`.
ReturnEmpty ==
    /\ lpc' = "returned"
    /\ l_result' = <<>>

\* Lines 109-126: the channel id is the last path segment; a URL that holds
\* "user" has it looked up as a legacy username.
ResolveChannel ==
    /\ lpc = "resolve"
    /\ LET channel_id == split_last(l_url, "/")
       IN  IF has_user(l_url)
           THEN /\ l_lookup' = [forUsername |-> channel_id]
                /\ \E outcome \in ProviderOutcomes :
                      CASE outcome = "ok" /\ channel_id \in DOMAIN Usernames ->
                              /\ l_channel_id' = Usernames[channel_id]
                              /\ lpc' = "channel"
                              /\ UNCHANGED << l_result, l_failure >>
                        [] outcome = "ok" /\ channel_id \notin DOMAIN Usernames ->
                              /\ ReturnEmpty
                              /\ l_channel_id' = channel_id
                              /\ UNCHANGED l_failure
                        [] outcome = "http_error" ->
                              /\ ReturnEmpty
                              /\ l_channel_id' = channel_id
                              /\ l_failure' = outcome
                        [] outcome = "error" ->
                              /\ lpc' = "raised"
                              /\ l_channel_id' = channel_id
                              /\ l_failure' = outcome
                              /\ UNCHANGED l_result
           ELSE /\ l_channel_id' = channel_id
                /\ lpc' = "channel"
                /\ UNCHANGED << l_lookup, l_result, l_failure >>
    /\ UNCHANGED << l_url, l_max_results, align_vars, run_vars, hist_vars, store_vars, filter_vars, eval_vars, page_vars >>

\* Lines 128-139: the channel is looked up for its uploads playlist.
LookupChannel ==
    /\ lpc = "channel"
    /\ \E outcome \in ProviderOutcomes :
          CASE outcome = "ok" /\ l_channel_id \in DOMAIN Uploads ->
                  /\ lpc' = "uploads"
                  /\ UNCHANGED << l_result, l_failure >>
            [] outcome = "ok" /\ l_channel_id \notin DOMAIN Uploads ->
                  /\ ReturnEmpty
                  /\ UNCHANGED l_failure
            [] outcome = "http_error" ->
                  /\ ReturnEmpty
                  /\ l_failure' = outcome
            [] outcome = "error" ->
                  /\ lpc' = "raised"
                  /\ l_failure' = outcome
                  /\ UNCHANGED l_result
    /\ UNCHANGED << l_url, l_max_results, l_channel_id, l_lookup, align_vars, run_vars, hist_vars, store_vars, filter_vars, eval_vars, page_vars >>

\* Lines 141-163: the pages of the uploads playlist are collected; a page
\* request, when one is made, may fail.
ListUploads ==
    /\ lpc = "uploads"
    /\ \E outcome \in ProviderOutcomes :
          CASE outcome = "ok" ->
                  /\ lpc' = "returned"
                  /\ l_result' = playlist_pages(Uploads[l_channel_id],
                                                l_max_results, <<>>, 0)
                  /\ UNCHANGED l_failure
            [] outcome = "http_error" /\ l_max_results > 0 ->
                  /\ ReturnEmpty
                  /\ l_failure' = outcome
            [] outcome = "error" /\ l_max_results > 0 ->
                  /\ lpc' = "raised"
                  /\ l_failure' = outcome
                  /\ UNCHANGED l_result
            [] OTHER -> FALSE
    /\ UNCHANGED << l_url, l_max_results, l_channel_id, l_lookup, align_vars, run_vars, hist_vars, store_vars, filter_vars, eval_vars, page_vars >>

NextList == ResolveChannel \/ LookupChannel \/ ListUploads

SpecList == InitList /\ [][NextList]_vars

\* The part of s after the first occurrence of sep and before the next one:
\* `s.split(sep)[1]`, for s that holds sep.
after(sep, s) ==
    LET i == CHOOSE k \in 0..(Len(s) - Len(sep)) :
                 /\ SubSeq(s, k + 1, k + Len(sep)) = sep
                 /\ \A j \in 0..(k - 1) : SubSeq(s, j + 1, j + Len(sep)) # sep
        rest == SubSeq(s, i + Len(sep) + 1, Len(s))
    IN  IF contains(sep, rest)
        THEN SubSeq(rest, 1,
                    (CHOOSE k \in 0..(Len(rest) - Len(sep)) :
                        /\ SubSeq(rest, k + 1, k + Len(sep)) = sep
                        /\ \A j \in 0..(k - 1) :
                              SubSeq(rest, j + 1, j + Len(sep)) # sep))
        ELSE rest

PathChannel == <<"/", "c", "h", "a", "n", "n", "e", "l", "/">>
PathUser == <<"/", "u", "s", "e", "r", "/">>
PathHandle == <<"/", "@">>

\* The resolution order: the lookup a reference asks for, and the id it
\* yields without a lookup.
ResolutionOf(channel_url) ==
    IF contains(PathChannel, channel_url)
    THEN [lookup |-> None, id |-> after(PathChannel, channel_url)]
    ELSE IF contains(PathUser, channel_url)
    THEN [lookup |-> [forUsername |-> after(PathUser, channel_url)]]
    ELSE IF contains(PathHandle, channel_url)
    THEN [lookup |-> [q |-> after(PathHandle, channel_url)]]
    ELSE [lookup |-> None, id |-> split_last(channel_url, "/")]

\* The paging loop with a provider that has up to MaxEmptyPages empty pages
\* among its finitely many pages, and with max_results down to -1; the loop
\* keeps running while it can.
MaxEmptyPages == 2

InitPageLive ==
    /\ ListIdle
    /\ StoreIdle
    /\ AlignIdle
    /\ RunIdle
    /\ FilterIdle
    /\ EvalIdle
    /\ gpc = "loop"
    /\ g_uploads \in PageUploads
    /\ g_max_results \in PageMaxResults \cup {-1}
    /\ g_videos = <<>>
    /\ g_token = None
    /\ g_requests = <<>>
    /\ g_empties \in 0..MaxEmptyPages

SpecPageLive == InitPageLive /\ [][NextPage]_vars /\ WF_vars(NextPage)

\* C30: the loop eventually exits; when it has exited, max_results items
\* are collected or the last page carried no token; and for max_results <= 0
\* no page was requested and the result is empty.
PagingTerminates ==
    /\ <>(gpc = "returned")
    /\ [](gpc = "returned" =>
             /\ Len(g_videos) >= g_max_results \/ g_token = None
             /\ g_max_results <= 0 => (g_requests = <<>> /\ g_videos = <<>>))

\* C30 witness: the loop has exited on a page without a token, short of
\* max_results, after an empty page.
PagingTerminatesWitness ==
    /\ gpc = "returned"
    /\ g_token = None
    /\ Len(g_videos) < g_max_results
    /\ Len(g_requests) >= 3
    /\ \E i \in 1..Len(g_requests) : g_requests[i].items = <<>>
    /\ g_videos # <<>>

\* C21: once the reference is resolved, the lookup made is the one of the
\* resolution order (none for a /channel/ URL, the username lookup for a
\* /user/ URL, the handle search for a /@handle URL, none otherwise), and
\* without a lookup the channel id is the one the order yields.
ResolutionOrder ==
    lpc \notin {"idle", "resolve"} =>
        /\ l_lookup = ResolutionOf(l_url).lookup
        /\ l_lookup = None => l_channel_id = ResolutionOf(l_url).id

\* C22: when a provider call of get_channel_videos has failed, in whatever
\* way, the method has returned the empty list and raised nothing.
ListingFailureContained ==
    l_failure # "none" => lpc = "returned" /\ l_result = <<>>

----------------------------------------------------------------------------
(* SpecStore: calls of save_processed_data on a store that starts empty,   *)
(* write by write, with crashes between the two writes of a call.          *)

\* The number of calls.
MaxSaves == 3

StoreVideoIds == {"v1", "v2"}

\* The metadata and transcript dicts passed to save_processed_data.
StoreMetadata ==
    { [video_id |-> "v1", title |-> "Rally", description |-> "Full rally"],
      [video_id |-> "v1", title |-> "Rally again"] }
StoreTranscripts ==
    { [video_id |-> "v1", segments |-> << "s1", "s2" >>, processed_at |-> 1],
      [video_id |-> "v1", segments |-> << "s3" >>] }

InitStore ==
    /\ ListIdle
    /\ AlignIdle
    /\ RunIdle
    /\ FilterIdle
    /\ EvalIdle
    /\ PageIdle
    /\ spc = "ready"
    /\ s_call = None
    /\ s_written = 0
    /\ s_metadata_dir = <<>>
    /\ s_transcript_dir = <<>>
    /\ s_saved = <<>>
    /\ s_calls = 0

\* One `with open(..., "w") as f: json.dump(..., f)` of the call.
WriteFile(kind, call) ==
    IF kind = "metadata"
    THEN /\ s_metadata_dir' =
               write_file(s_metadata_dir, call.video_id, call.metadata)
         /\ UNCHANGED s_transcript_dir
    ELSE /\ s_transcript_dir' =
               write_file(s_transcript_dir, call.video_id, call.transcript)
         /\ UNCHANGED s_metadata_dir

\* save_processed_data(video_id, metadata, transcript) is called and writes
\* its first file.
SaveFirst ==
    /\ spc = "ready"
    /\ s_calls < MaxSaves
    /\ \E video_id \in StoreVideoIds, m \in StoreMetadata,
          t \in StoreTranscripts :
          LET call == [video_id |-> video_id, metadata |-> m,
                       transcript |-> t]
          IN  /\ s_call' = call
              /\ WriteFile(save_order[1], call)
              /\ s_saved' = Put(s_saved, video_id,
                                [metadata |-> m, transcript |-> t,
                                 returned |-> FALSE,
                                 fields |->
                                    DOMAIN m \cup DOMAIN t
                                    \cup IF video_id \in DOMAIN s_saved
                                         THEN s_saved[video_id].fields
                                         ELSE {}])
    /\ s_written' = 1
    /\ s_calls' = s_calls + 1
    /\ spc' = "saving"
    /\ UNCHANGED << align_vars, run_vars, hist_vars, filter_vars, eval_vars, page_vars, list_vars >>

\* The call writes its second file and returns.
SaveSecond ==
    /\ spc = "saving"
    /\ WriteFile(save_order[2], s_call)
    /\ s_saved' = [s_saved EXCEPT ![s_call.video_id].returned = TRUE]
    /\ s_written' = 2
    /\ spc' = "ready"
    /\ s_call' = None
    /\ UNCHANGED << s_calls, align_vars, run_vars, hist_vars, filter_vars, eval_vars, page_vars, list_vars >>

\* The process dies between the two writes.
Crash ==
    /\ spc = "saving"
    /\ spc' = "crashed"
    /\ UNCHANGED << s_call, s_written, s_metadata_dir, s_transcript_dir, s_saved, s_calls, align_vars, run_vars, hist_vars, filter_vars, eval_vars, page_vars, list_vars >>

\* A later process works on the store the crash left.
Restart ==
    /\ spc = "crashed"
    /\ spc' = "ready"
    /\ s_call' = None
    /\ s_written' = 0
    /\ UNCHANGED << s_metadata_dir, s_transcript_dir, s_saved, s_calls, align_vars, run_vars, hist_vars, filter_vars, eval_vars, page_vars, list_vars >>

NextStore == SaveFirst \/ SaveSecond \/ Crash \/ Restart

SpecStore == InitStore /\ [][NextStore]_vars

\* C24: the store holds records only for video ids that were saved, one
\* metadata record and one transcript record per id, and when the most
\* recent save of an id has returned, both records are exactly the ones
\* passed to it.
StoreHoldsLastSave ==
    /\ DOMAIN s_metadata_dir \subseteq DOMAIN s_saved
    /\ DOMAIN s_transcript_dir \subseteq DOMAIN s_saved
    /\ \A v \in DOMAIN s_saved :
          s_saved[v].returned =>
              /\ v \in DOMAIN s_metadata_dir
              /\ v \in DOMAIN s_transcript_dir
              /\ s_metadata_dir[v] = s_saved[v].metadata
              /\ s_transcript_dir[v] = s_saved[v].transcript

\* C24 witness: an id saved first with the longer records and then with
\* the shorter ones holds none of the fields of the earlier records, next
\* to another id that holds the longer records.
StoreHoldsLastSaveWitness ==
    /\ spc = "ready"
    /\ s_calls = MaxSaves
    /\ \E v \in DOMAIN s_saved :
          /\ s_saved[v].returned
          /\ {"description", "processed_at"} \subseteq s_saved[v].fields
          /\ "description" \notin DOMAIN s_metadata_dir[v]
          /\ "processed_at" \notin DOMAIN s_transcript_dir[v]
          /\ \E w \in DOMAIN s_saved :
                /\ w # v
                /\ s_saved[w].returned
                /\ "description" \in DOMAIN s_metadata_dir[w]

\* C29: in every state of a run that started from an empty store, also
\* between the two writes of a call and after a crash there, every video
\* id with a transcript record has a metadata record.
TranscriptImpliesMetadata ==
    DOMAIN s_transcript_dir \subseteq DOMAIN s_metadata_dir

\* C29 witness: after a crash between the two writes an id has a metadata
\* record and no transcript record, next to an id that has both.
TranscriptImpliesMetadataWitness ==
    /\ spc = "crashed"
    /\ s_written = 1
    /\ s_call.video_id \in DOMAIN s_metadata_dir
    /\ s_call.video_id \notin DOMAIN s_transcript_dir
    /\ DOMAIN s_transcript_dir # {}

----------------------------------------------------------------------------
(* The states of a video, checked under Spec.                              *)

\* The states in which the processing of a video is over.
TerminalStates ==
    {"filtered_out", "skipped", "persisted", "no_evaluation", "not_aligned",
     "raised"}

\* The steps of the state machine of a video.
VideoTransitions ==
    { << "filtered_in", "classified" >>, << "filtered_in", "raised" >>,
      << "classified", "no_evaluation" >>, << "classified", "skipped" >>,
      << "classified", "aligned" >>, << "classified", "not_aligned" >>,
      << "classified", "raised" >>,
      << "aligned", "persisted" >>, << "aligned", "raised" >> }

\* A step of the run moves only the current video, along the state machine;
\* a video enters it as filtered in or filtered out, and a video that is
\* aligned was classified and had process_transcript invoked.
VideoStep ==
    /\ \A k \in DOMAIN vstate :
          /\ k \in DOMAIN vstate'
          /\ vstate'[k] # vstate[k] =>
                /\ << vstate[k], vstate'[k] >> \in VideoTransitions
                /\ k = Key
                /\ pc \in {"video", "gate", "align", "save_metadata", "save_transcript"}
                /\ vstate'[k] \in {"aligned", "persisted"} =>
                       (k \in DOMAIN decisions /\ k \in invoked')
    /\ \A k \in DOMAIN vstate' \ DOMAIN vstate :
          vstate'[k] \in {"filtered_in", "filtered_out"}

\* No step leaves the state machine.
VideoStepsOrdered == [][VideoStep]_vars

\* While a video is being processed, the videos before it in the list are
\* terminal and those after it are not started.
OneVideoAtATime ==
    pc \in {"video", "gate", "align", "save_metadata", "save_transcript"} =>
        \A i \in 1..Len(trump_videos) :
            LET k == KeyOf(chan, trump_videos[i])
            IN  /\ i < vidx => vstate[k] \in TerminalStates
                /\ i > vidx => vstate[k] = "filtered_in"

\* C23: every video the lister returned is in a terminal state when the run
\* is over, every step follows the state machine (persisted only after
\* filtered in, classified and aligned, in that order, with no way back),
\* and the next video is started only when the current one is terminal.
VideoStateMachine ==
    /\ [](pc \in {"done", "raised"} =>
             \A k \in DOMAIN vstate : vstate[k] \in TerminalStates)
    /\ []OneVideoAtATime
    /\ [][VideoStep]_vars

\* C25 (as claimed): from the construction on, the source records are
\* equal, field for field, to the records supplied as configuration.
SourcesEqualConfig == pc # "idle" => sources = Config

\* C25 (amended): from the construction to the end of the run, the source
\* records are the supplied ones in the supplied order, every supplied field
\* with its supplied value, with the one field commentary_level_numeric
\* added, which holds the number of the supplied commentary_level (1 when
\* the level is not in the map).
SourcesKeepConfig ==
    pc # "idle" =>
        /\ Len(sources) = Len(Config)
        /\ \A i \in 1..Len(Config) :
              /\ DOMAIN sources[i]
                    = DOMAIN Config[i] \cup {"commentary_level_numeric"}
              /\ \A f \in DOMAIN Config[i] \ {"commentary_level_numeric"} :
                    sources[i][f] = Config[i][f]
              /\ sources[i].commentary_level_numeric
                    = CASE Config[i].commentary_level = "none" -> 0
                        [] Config[i].commentary_level = "minimal_intro/outro" -> 1
                        [] Config[i].commentary_level = "substantial" -> 2
                        [] OTHER -> 1

\* C25 witness: the run is over with videos persisted from both channels,
\* one source has a level of the map and the other one has not.
SourcesKeepConfigWitness ==
    /\ pc = "done"
    /\ \E k \in DOMAIN vstate : k[1] = 1 /\ vstate[k] = "persisted"
    /\ \E k \in DOMAIN vstate : k[1] = 2 /\ vstate[k] = "persisted"
    /\ sources[1].commentary_level_numeric = 0
    /\ sources[2].commentary_level = "mixed"
    /\ sources[2].commentary_level_numeric = 1

----------------------------------------------------------------------------
(* The query layer (src/api.py) on the metadata the pipeline persisted,    *)
(* checked under Spec.                                                     *)

\* class VideoMetadata(BaseModel): the fields, all of them required.
VideoMetadataFields ==
    {"video_id", "title", "channel_title", "publish_date", "description",
     "views", "likes", "duration_seconds", "tags"}

\* load_metadata(video_id): None without a file; otherwise
\* VideoMetadata(**data), which raises a validation error when a required
\* field is missing and keeps the declared fields otherwise.
load_metadata(dir, video_id) ==
    IF video_id \notin DOMAIN dir THEN [kind |-> "none"]
    ELSE IF ~(VideoMetadataFields \subseteq DOMAIN dir[video_id])
    THEN [kind |-> "raise"]
    ELSE [kind |-> "ok",
          value |-> [f \in VideoMetadataFields |-> dir[video_id][f]]]

\* list_videos(): the metadata of every file of the directory; an exception
\* of load_metadata is not caught.
list_videos(dir) ==
    IF \E v \in DOMAIN dir : load_metadata(dir, v).kind = "raise"
    THEN [kind |-> "raise"]
    ELSE [kind |-> "ok",
          value |-> { load_metadata(dir, v).value : v \in DOMAIN dir }]

\* C26: every metadata record the pipeline wrote is read back by
\* load_metadata, so the video is listed by list_videos.
MetadataReadable ==
    /\ \A v \in DOMAIN metadata_store :
          load_metadata(metadata_store, v).kind = "ok"
    /\ list_videos(metadata_store).kind = "ok"

====
